---- MODULE Spec2Model ----
(***************************************************************************)
(* Resource-governance layer of ChessIA (src/engine/rate_limiter.py) and   *)
(* the timeout-wrapped game loop of src/engine/chess_demo.py; the scenario  *)
(* comparator (src/engine/compare_v42.py, compare_v42_ui_bridge.py) and    *)
(* the structural metrics (src/engine/demo.py, src/engine/mcl_chess.py).   *)
(*                                                                         *)
(* Time is counted in whole seconds (signal.alarm takes whole seconds);    *)
(* `now` is the wall clock read by time.time().                            *)
(***************************************************************************)
EXTENDS Integers, Sequences, FiniteSets, TLC

(***************************************************************************)
(* Bounds of the model.                                                    *)
(***************************************************************************)
MaxTime == 5
MaxCalls == 2
MaxWindow == 3
NumThreads == 2
MaxShared == 3
MaxSeconds == 2
MaxDur == 3
MaxArg == 1
MaxGameMoves == 2
MaxReqMoves == 601
MaxReqNodes == 1201
WarnDen == 10
MaxH == 3
MaxSteps == 3
MaxVal == 2
MaxScen == 2
MaxNodes == 3
MaxPieces == 2
RngMod == 5
MaxBuildNodes == 3
MaxRunMoves == 10
MaxReseedMoves == 3
MaxTaken == 1

VARIABLES
    now,          \* time.time(), in seconds
    constructed,  \* TRUE once SimpleRateLimiter.__init__ has run
    max_calls,    \* self.max_calls
    time_window,  \* self.time_window
    calls,        \* self.calls: the recorded timestamps, in order of recording
    lim_op,       \* the last limiter operation performed
    lim_ret,      \* what that operation returned
    admitted,     \* history: the times of all calls is_allowed() admitted
    lim_young,    \* history: admitted calls younger than time_window at the last is_allowed()
    body_runs,    \* history: the times at which a rate_limited function body ran
    wrap_outcome, \* how the last call of a rate_limited function ended
    wrap_wait,    \* wait_time computed by the rate_limited wrapper when it refuses
    th_pc,        \* per thread: its position inside is_allowed()
    th_now,       \* per thread: the local variable now of is_allowed()
    th_tmp,       \* per thread: the list built by the comprehension, not yet stored
    th_started,   \* the number of is_allowed() calls begun on the shared limiter
    handler,      \* the handler installed for SIGALRM
    alarm_left,   \* seconds until the pending alarm expires; 0: no alarm pending
    sig_pending,  \* SIGALRM has arrived and its handler has not run yet
    t_pc,         \* position of the governed call inside timeout.wrapper / time_limit
    t_kind,       \* "timeout" (the decorator) or "time_limit" (the context manager)
    t_func,       \* the governed code: "generic" or "run_game_stepwise"
    t_thread,     \* the thread making the call: "main" or "worker"
    t_seconds,    \* the decorator's argument seconds
    t_guarded,    \* the call took the signal path (it did not return at line 56)
    t_old,        \* old_handler, saved by the wrapper
    t_arg,        \* the argument passed to the wrapped function
    t_dur,        \* the time the wrapped function needs to finish
    t_left,       \* the time the wrapped function still needs
    t_raises,     \* the wrapped function ends by raising its own exception
    t_ran,        \* the wrapped function (or the with-body) was entered
    t_exc,        \* the exception propagating out of the body, "none" if none
    t_res,        \* the local variable result of the wrapper
    t_outcome,    \* how the call ended for the caller
    t_result,     \* the value the caller received
    t_fired,      \* history: timeout_handler ran during this call
    g_pc,         \* run_game_stepwise: position in the function
    g_max_moves,  \* run_game_stepwise: max_moves
    g_move_count, \* run_game_stepwise: move_count
    g_hist,       \* run_game_stepwise: len(history)
    g_turns,      \* run_game_stepwise: the turn number and the label of each entry
    g_int,        \* run_game_stepwise: whether max_moves was passed as an int
    g_rng,        \* run_game_stepwise: the argument rng
    cost_pc,      \* "idle", "asked" (arguments passed) or "answered" (dict returned)
    cost_in,      \* the arguments of the last validate_computational_cost call
    cost_out,     \* the dict it returned
    sc_state,     \* Scenario(...): "absent", "created" or "rejected" (ValueError raised)
    sc_args,      \* the arguments passed to Scenario.__init__
    sc_self,      \* the attributes of the Scenario object
    sim_pc,       \* simulate(): "idle", "loop", "returned" or "raised" (ValueError)
    sim_steps,    \* simulate(): the argument steps
    sim_values,   \* simulate(): the list values
    sim_H,        \* simulate(): the local variable H
    sim_i,        \* simulate(): the number of iterations of the loop done
    cl_pc,        \* classify: "idle" or "answered"
    cl_in,        \* the arguments of the last classify call
    cl_out,       \* the class it returned, or the exception it raised
    cmp_pc,       \* compare and its wrappers: "idle" or "answered"
    cmp_in,       \* the entry point called and its arguments
    cmp_out,      \* how the call ended: exception, ranking, simulate() calls made
    met_pc,       \* the metrics functions: "idle" or "answered"
    met_in,       \* the function called and the entity set passed
    met_out,      \* the tuple returned
    n_pc,         \* a wrapper entered inside a wrapped body: its position
    n_kind,       \* the inner wrapper: "timeout" or "time_limit"
    n_seconds,    \* the limit of the inner wrapper
    n_dur,        \* seconds the inner body needs
    n_left,       \* seconds the inner body still needs
    n_old,        \* old_handler of the inner wrapper
    n_exc,        \* the exception leaving the inner body, or "none"
    n_before,     \* seconds the outer body needs before it enters the inner wrapper
    n_wait,       \* seconds of them still to go
    rng,          \* the state of each random source, NoSource before it is created
    bg_pc,        \* build_graph: "idle" or "answered"
    bg_in,        \* the arguments of the last build_graph call
    bg_out,       \* the exception it raised, or the nodes and the edges it returned
    bg_prev,      \* an earlier build_graph call with a source of the caller
    rg_pc,        \* run_game: "idle", "loop" (head of the for loop), "move", "done"
    rg_in,        \* the arguments of the run_game call, and the reseeding before it
    rg_board,     \* run_game: the local variable board
    rg_move_count, \* run_game: the loop variable move_count
    rg_hist,      \* run_game: the list history
    rg_exc,       \* the exception run_game raised, or "none"
    rg_prev,      \* an earlier run_game call with the module's default source
    rg_seeded,    \* the seed of a random.seed() call just made, NoSource otherwise
    ex_pc,        \* obtener_explicacion_con_fuente: "idle", "asking" or "answered"
    ex_in,        \* its arguments, and after validation their cleaned values
    ex_client,    \* the client passed and what the environment offers without one
    ex_calls,     \* calls of client.responses.create made by the call
    ex_out        \* how the call ended, and what the collaborator did

limiterVars == <<constructed, max_calls, time_window, calls, lim_op, lim_ret,
                 admitted, lim_young, body_runs, wrap_outcome, wrap_wait>>

concVars == <<th_pc, th_now, th_tmp, th_started>>

signalVars == <<handler, alarm_left, sig_pending>>

callParams == <<t_kind, t_func, t_thread, t_seconds, t_guarded, t_arg, t_dur, t_raises>>

callVars == <<t_pc, callParams, t_old, t_left, t_ran, t_exc, t_res, t_outcome, t_result,
              t_fired>>

gameVars == <<g_pc, g_max_moves, g_move_count, g_hist, g_turns, g_int, g_rng>>

deadlineVars == <<signalVars, callVars, gameVars>>

costVars == <<cost_pc, cost_in, cost_out>>

scenarioVars == <<sc_state, sc_args, sc_self, sim_pc, sim_steps, sim_values, sim_H, sim_i>>

classifyVars == <<cl_pc, cl_in, cl_out>>

compareVars == <<cmp_pc, cmp_in, cmp_out>>

metricsVars == <<met_pc, met_in, met_out>>

nestVars == <<n_pc, n_kind, n_seconds, n_dur, n_left, n_old, n_exc, n_before, n_wait>>

rngVars == <<rng>>

builderVars == <<bg_pc, bg_in, bg_out, bg_prev>>

runVars == <<rg_pc, rg_in, rg_board, rg_move_count, rg_hist, rg_exc, rg_prev, rg_seeded>>

explVars == <<ex_pc, ex_in, ex_client, ex_calls, ex_out>>

extVars == <<nestVars, rngVars, builderVars, runVars, explVars>>

\* the variables of the layers above
coreVars == <<now, limiterVars, concVars, deadlineVars, costVars, scenarioVars,
              classifyVars, compareVars, metricsVars>>

engineVars == <<scenarioVars, classifyVars, compareVars, metricsVars, extVars>>

vars == <<now, limiterVars, concVars, deadlineVars, costVars, engineVars>>

\* the callers sharing one limiter
Threads == 1..NumThreads

(***************************************************************************)
(* SimpleRateLimiter                                                       *)
(***************************************************************************)

\* rate_limiter.py:104, the filter of the list comprehension, with a late cut-off
InWindowLate(t, n, w) == n - t <= w

\* rate_limiter.py:104: a timestamp t is kept at time n iff  now - t < time_window
InWindow(t, n, w) == n - t < w

\* rate_limiter.py:104: self.calls = [t for t in self.calls if now - t < self.time_window]
Purge(c, n, w) == SelectSeq(c, LAMBDA t : InWindow(t, n, w))

\* rate_limiter.py:107 with an off-by-one quota test
HasQuotaOffByOne(c, m) == Len(c) <= m

\* rate_limiter.py:107: if len(self.calls) < self.max_calls
HasQuota(c, m) == Len(c) < m

\* min(self.calls)
MinOf(c) == CHOOSE x \in {c[i] : i \in DOMAIN c} : \A j \in DOMAIN c : x <= c[j]

\* max(a, b)
Max2(a, b) == IF a >= b THEN a ELSE b

\* rate_limiter.py:113-127 without the clamp of line 127
TimeUntilNextAllowedNoClamp(c, n, m, w) ==
    IF HasQuota(c, m) THEN 0
    ELSE w - (n - MinOf(c))

\* rate_limiter.py:113-127: time_until_next_allowed()
TimeUntilNextAllowed(c, n, m, w) ==
    IF HasQuota(c, m) THEN 0
    ELSE Max2(w - (n - MinOf(c)), 0)

LimiterInit ==
    /\ constructed = FALSE
    /\ max_calls = 1
    /\ time_window = 1
    /\ calls = <<>>
    /\ lim_op = "none"
    /\ lim_ret = 0
    /\ admitted = <<>>
    /\ lim_young = 0
    /\ body_runs = <<>>
    /\ wrap_outcome = "none"
    /\ wrap_wait = 0

ConcInit ==
    /\ th_pc = [t \in Threads |-> "idle"]
    /\ th_now = [t \in Threads |-> 0]
    /\ th_tmp = [t \in Threads |-> <<>>]
    /\ th_started = 0

\* the value of a result that was never assigned (None)
NoResult == 0

\* rate_limiter.py:148 and 59: no handler for SIGALRM and no alarm before the first call
SignalInit ==
    /\ handler = "SIG_DFL"
    /\ alarm_left = 0
    /\ sig_pending = FALSE

CallInit ==
    /\ t_pc = "idle"
    /\ t_kind = "timeout"
    /\ t_func = "generic"
    /\ t_thread = "main"
    /\ t_seconds = 0
    /\ t_guarded = FALSE
    /\ t_old = "SIG_DFL"
    /\ t_arg = 0
    /\ t_dur = 0
    /\ t_left = 0
    /\ t_raises = FALSE
    /\ t_ran = FALSE
    /\ t_exc = "none"
    /\ t_res = NoResult
    /\ t_outcome = "none"
    /\ t_result = NoResult
    /\ t_fired = FALSE

GameInit ==
    /\ g_pc = "none"
    /\ g_max_moves = 0
    /\ g_move_count = 0
    /\ g_hist = 0
    /\ g_turns = <<>>
    /\ g_int = TRUE
    /\ g_rng = "None"

\* rate_limiter.py:163: max_nodes = None, the argument left out
NoNodes == -1

\* no estimate asked for yet: the empty request and its estimate
CostInit ==
    /\ cost_pc = "idle"
    /\ cost_in = [moves |-> 0, nodes |-> NoNodes, warn |-> <<1, 1>>]
    /\ cost_out = [allowed |-> TRUE, cost |-> <<0, 1>>, warning |-> "None"]

\* no Scenario built, nothing simulated
ScenarioInit ==
    /\ sc_state = "absent"
    /\ sc_args = [name |-> "", H_eff_init |-> 0, decay |-> 0]
    /\ sc_self = [name |-> "", H_eff_init |-> 0, decay |-> 0]
    /\ sim_pc = "idle"
    /\ sim_steps = 0
    /\ sim_values = <<>>
    /\ sim_H = 0
    /\ sim_i = 0

\* classify not called yet
ClassifyInit ==
    /\ cl_pc = "idle"
    /\ cl_in = [H_eff |-> 0, dH |-> 0, alpha_h_min |-> 0, alpha_decay_max |-> 0,
                beta_h_min |-> 0]
    /\ cl_out = "None"

\* compare not called yet
CompareInit ==
    /\ cmp_pc = "idle"
    /\ cmp_in = [api |-> "none", is_list |-> TRUE, scenarios |-> <<>>,
                 alpha_h_min |-> 0, alpha_decay_max |-> 0, beta_h_min |-> 0, steps |-> 0]
    /\ cmp_out = [exc |-> "none", msg |-> "", ranking |-> <<>>, simulated |-> 0]

\* no metrics computed yet
MetricsInit ==
    /\ met_pc = "idle"
    /\ met_in = [fn |-> "none", nodes |-> <<>>, gnodes |-> {}, edges |-> {},
                 pieces |-> <<>>]
    /\ met_out = [H |-> <<0, 1>>, H_eff |-> <<0, 1>>, S2 |-> <<0, 1>>]

\* no wrapper entered inside another one
NestInit ==
    /\ n_pc = "none"
    /\ n_kind = "timeout"
    /\ n_seconds = 1
    /\ n_dur = 0
    /\ n_left = 0
    /\ n_old = "SIG_DFL"
    /\ n_exc = "none"
    /\ n_before = 0
    /\ n_wait = 0

\* demo.py:20, mcl_chess.py:20, chess_demo.py:33: random.Random(42)
DefaultSeed == 42

\* a random.Random object not created yet
NoSource == -1

\* the module-level generators, the generator of the random module itself, and two
\* generators of the caller
ModuleSources == {"demo._demo_rng", "mcl_chess._chess_rng", "chess_demo._demo_rng"}

CallerSources == {"rng1", "rng2"}

Sources == ModuleSources \cup {"random"} \cup CallerSources

\* random.Random(seed) and random.seed(seed): the state is a function of the seed
Seeded(seed) == seed % RngMod

\* the module-level generators are created at import; the one of the random module
\* is seeded by the system, and counts as not created until the program seeds it
RngInit ==
    rng = [r \in Sources |->
              IF r \in ModuleSources THEN Seeded(DefaultSeed) ELSE NoSource]

NoBuildIn == [n |-> [is_int |-> TRUE, val |-> 0], rng |-> "None", st |-> NoSource]

NoBuildOut == [exc |-> "none", nodes |-> <<>>, edges |-> {}]

\* build_graph not called yet
BuilderInit ==
    /\ bg_pc = "idle"
    /\ bg_in = NoBuildIn
    /\ bg_out = NoBuildOut
    /\ bg_prev = [set |-> FALSE, n |-> 0, st |-> NoSource, nodes |-> <<>>, edges |-> {}]

\* chess.Board(): the position abstracted to what the metrics read. taken counts
\* the pawns captured, queens the pawns promoted, opened the developing moves
\* made, ply the moves pushed; over is board.is_game_over()
InitialBoard == [taken |-> 0, queens |-> 0, opened |-> 0, ply |-> 0, over |-> FALSE]

NoRunIn == [max_moves |-> [is_int |-> TRUE, val |-> 0], rng |-> "None", seed |-> NoSource]

\* run_game not called yet
RunInit ==
    /\ rg_pc = "idle"
    /\ rg_in = NoRunIn
    /\ rg_board = InitialBoard
    /\ rg_move_count = 0
    /\ rg_hist = <<>>
    /\ rg_exc = "none"
    /\ rg_prev = [set |-> FALSE, max_moves |-> 0, seed |-> NoSource, hist |-> <<>>]
    /\ rg_seeded = NoSource

\* a str value: its text without surrounding whitespace, and whether it has any
Str(pad, core) == [t |-> "str", pad |-> pad, core |-> core]

\* a value that is no str (None, a number), and a missing key of a dict
NotStr == [t |-> "other", pad |-> FALSE, core |-> ""]

\* a number: its type, its sign, and whether an int lies beyond the float range
Num(t, sign, big) == [t |-> t, sign |-> sign, big |-> big]

\* a value that is no number, which is also what dict.get gives for a missing key
NotNum == Num("other", 0, FALSE)

\* a missing key of the scenario dict
Absent == Num("absent", 0, FALSE)

NoScenario == [dict |-> FALSE, name |-> NotStr, H_eff |-> NotNum, decay |-> Absent,
               dH_eff_dt |-> Absent]

NoText == [kind |-> "none", body |-> "", audience |-> "", name |-> "",
           classification |-> "", numbers |-> <<>>]

NoResponse == [how |-> "none", text |-> NotStr]

NoExplOut == [outcome |-> "none", exc |-> "none", text |-> NoText, source |-> "none",
              collab |-> NoResponse]

ExplInit ==
    /\ ex_pc = "idle"
    /\ ex_in = [scenario |-> NoScenario, classification |-> NotStr,
                oyente_type |-> NotStr, clean |-> FALSE]
    /\ ex_client = [client |-> "None", api_key |-> FALSE, sdk |-> FALSE]
    /\ ex_calls = 0
    /\ ex_out = NoExplOut

ExtInit == NestInit /\ RngInit /\ BuilderInit /\ RunInit /\ ExplInit

EngineInit == ScenarioInit /\ ClassifyInit /\ CompareInit /\ MetricsInit /\ ExtInit

Init ==
    /\ now = 0
    /\ LimiterInit
    /\ ConcInit
    /\ SignalInit
    /\ CallInit
    /\ GameInit
    /\ CostInit
    /\ EngineInit

\* time passes
Tick ==
    /\ now < MaxTime
    /\ now' = now + 1
    /\ UNCHANGED <<limiterVars, concVars, deadlineVars, costVars, engineVars>>

\* rate_limiter.py:84-92: SimpleRateLimiter(max_calls, time_window)
NewLimiter ==
    /\ ~constructed
    /\ \E m \in 1..MaxCalls, w \in 1..MaxWindow :
        /\ max_calls' = m
        /\ time_window' = w
    /\ constructed' = TRUE
    /\ calls' = <<>>
    /\ lim_op' = "init"
    /\ UNCHANGED <<now, lim_ret, admitted, lim_young, body_runs, wrap_outcome, wrap_wait,
                   concVars, deadlineVars, costVars, engineVars>>

\* history: the number of admitted calls whose age at time n is below w
YoungAdmitted(n, w) == Cardinality({i \in DOMAIN admitted : admitted[i] + w > n})

\* rate_limiter.py:94-111: the value is_allowed() returns at time n
IsAllowedRet(c, n, m, w) == HasQuota(Purge(c, n, w), m)

\* rate_limiter.py:94-111 with line 108 moved out of the quota test
IsAllowedCallsRecordsAlways(c, n, m, w) == Append(Purge(c, n, w), n)

\* rate_limiter.py:94-111: self.calls after is_allowed() at time n
IsAllowedCalls(c, n, m, w) ==
    IF HasQuota(Purge(c, n, w), m)
    THEN Append(Purge(c, n, w), n)
    ELSE Purge(c, n, w)

\* rate_limiter.py:94-111: a call of is_allowed()
IsAllowed ==
    /\ constructed
    /\ calls' = IsAllowedCalls(calls, now, max_calls, time_window)
    /\ lim_ret' = IF IsAllowedRet(calls, now, max_calls, time_window) THEN 1 ELSE 0
    /\ admitted' = IF IsAllowedRet(calls, now, max_calls, time_window)
                   THEN Append(admitted, now) ELSE admitted
    /\ lim_op' = "is_allowed"
    /\ lim_young' = YoungAdmitted(now, time_window)
    /\ UNCHANGED <<now, constructed, max_calls, time_window, body_runs,
                   wrap_outcome, wrap_wait, concVars, deadlineVars, costVars, engineVars>>

\* rate_limiter.py:113-127: a call of time_until_next_allowed()
TimeUntil ==
    /\ constructed
    /\ lim_op' = "time_until_next_allowed"
    /\ lim_ret' = TimeUntilNextAllowed(calls, now, max_calls, time_window)
    /\ UNCHANGED <<now, constructed, max_calls, time_window, calls, admitted,
                   lim_young, body_runs, wrap_outcome, wrap_wait, concVars, deadlineVars, costVars, engineVars>>

\* rate_limiter.py:220-226 with the refusal dropped: the body runs on every call
RunsBodyAlways(allowed) == TRUE

\* rate_limiter.py:220-226: the wrapper calls func iff limiter.is_allowed() returned True
RunsBody(allowed) == allowed

\* rate_limiter.py:204-229: a call of a function decorated with rate_limited
RateLimitedCall ==
    /\ constructed
    /\ calls' = IsAllowedCalls(calls, now, max_calls, time_window)
    /\ lim_ret' = IF IsAllowedRet(calls, now, max_calls, time_window) THEN 1 ELSE 0
    /\ admitted' = IF IsAllowedRet(calls, now, max_calls, time_window)
                   THEN Append(admitted, now) ELSE admitted
    /\ lim_young' = YoungAdmitted(now, time_window)
    /\ lim_op' = "rate_limited"
    /\ IF RunsBody(IsAllowedRet(calls, now, max_calls, time_window))
       THEN /\ body_runs' = Append(body_runs, now)
            /\ wrap_outcome' = "returned"
            /\ wrap_wait' = 0
       ELSE /\ body_runs' = body_runs
            /\ wrap_outcome' = "RuntimeError"
            /\ wrap_wait' = TimeUntilNextAllowed(calls', now, max_calls, time_window)
    /\ UNCHANGED <<now, constructed, max_calls, time_window, concVars, deadlineVars, costVars, engineVars>>

NextLimiter == Tick \/ NewLimiter \/ IsAllowed \/ TimeUntil

SpecLimiter == Init /\ [][NextLimiter]_vars

\* the limiter of a rate_limited decorator is private to its wrapper
NextRateLimited == Tick \/ NewLimiter \/ RateLimitedCall

SpecRateLimited == Init /\ [][NextRateLimited]_vars

(***************************************************************************)
(* One SimpleRateLimiter shared by several threads. The class takes no     *)
(* lock, and the interpreter may switch threads between the statements     *)
(* (and between the evaluation and the store of line 104) of is_allowed(). *)
(***************************************************************************)

limiterParams == <<constructed, max_calls, time_window>>

wrapperVars == <<body_runs, wrap_outcome, wrap_wait>>

\* rate_limiter.py:101: now = time.time()
CReadClock(t) ==
    /\ constructed
    /\ th_pc[t] = "idle"
    /\ th_started < MaxShared
    /\ th_started' = th_started + 1
    /\ th_now' = [th_now EXCEPT ![t] = now]
    /\ th_pc' = [th_pc EXCEPT ![t] = "filter"]
    /\ UNCHANGED <<now, limiterParams, calls, lim_op, lim_ret, admitted, lim_young,
                   wrapperVars, th_tmp,
                   deadlineVars, costVars, engineVars>>

\* rate_limiter.py:104, right-hand side: the comprehension builds a new list
CFilter(t) ==
    /\ th_pc[t] = "filter"
    /\ th_tmp' = [th_tmp EXCEPT ![t] = Purge(calls, th_now[t], time_window)]
    /\ th_pc' = [th_pc EXCEPT ![t] = "store"]
    /\ UNCHANGED <<now, limiterParams, calls, lim_op, lim_ret, admitted, lim_young,
                   wrapperVars, th_now, th_started,
                   deadlineVars, costVars, engineVars>>

\* rate_limiter.py:104, the assignment: self.calls = <the new list>
CStore(t) ==
    /\ th_pc[t] = "store"
    /\ calls' = th_tmp[t]
    /\ th_pc' = [th_pc EXCEPT ![t] = "check"]
    /\ UNCHANGED <<now, limiterParams, lim_op, lim_ret, admitted, lim_young,
                   wrapperVars, th_now, th_tmp, th_started,
                   deadlineVars, costVars, engineVars>>

\* rate_limiter.py:107 and 111: the quota test; return False when it fails
CCheck(t) ==
    /\ th_pc[t] = "check"
    /\ IF HasQuota(calls, max_calls)
       THEN /\ th_pc' = [th_pc EXCEPT ![t] = "append"]
            /\ UNCHANGED <<lim_op, lim_ret>>
       ELSE /\ th_pc' = [th_pc EXCEPT ![t] = "idle"]
            /\ lim_op' = "is_allowed"
            /\ lim_ret' = 0
    /\ UNCHANGED <<now, limiterParams, calls, admitted, lim_young, wrapperVars,
                   th_now, th_tmp, th_started,
                   deadlineVars, costVars, engineVars>>

\* rate_limiter.py:108-109: self.calls.append(now); return True
CAppend(t) ==
    /\ th_pc[t] = "append"
    /\ calls' = Append(calls, th_now[t])
    /\ admitted' = Append(admitted, th_now[t])
    /\ lim_op' = "is_allowed"
    /\ lim_ret' = 1
    /\ th_pc' = [th_pc EXCEPT ![t] = "idle"]
    /\ UNCHANGED <<now, limiterParams, lim_young, wrapperVars, th_now, th_tmp, th_started,
                   deadlineVars, costVars, engineVars>>

NextConcurrent ==
    \/ Tick
    \/ NewLimiter
    \/ \E t \in Threads : CReadClock(t)
    \/ \E t \in Threads : CFilter(t)
    \/ \E t \in Threads : CStore(t)
    \/ \E t \in Threads : CCheck(t)
    \/ \E t \in Threads : CAppend(t)

SpecConcurrent == Init /\ [][NextConcurrent]_vars

(***************************************************************************)
(* Deadline enforcement: timeout (decorator) and time_limit (context       *)
(* manager). alarm_left counts down while the governed code runs; when it  *)
(* reaches 0 SIGALRM arrives and the installed handler runs in the main    *)
(* thread before the main thread executes anything else.                   *)
(***************************************************************************)

notDeadline == <<now, limiterVars, concVars, costVars, engineVars>>

\* rate_limiter.py:51-53 with the test of the thread left out
IsMainThreadAlways(th) == TRUE

\* rate_limiter.py:51: threading.current_thread() is threading.main_thread()
IsMainThread(th) == th = "main"

\* rate_limiter.py:59 and 148: signal.signal() succeeds only in the main thread of
\* the interpreter; in any other thread it raises ValueError
SignalAllowed(th) == th = "main"

\* rate_limiter.py:60 arming the alarm one second late
ArmSecondsLate(sec) == sec + 1

\* rate_limiter.py:60 and 149: signal.alarm(seconds)
ArmSeconds(sec) == sec

\* rate_limiter.py:63: the value func(*args, **kwargs) computes from its argument
Func(a) == a + 1

\* rate_limiter.py:69: return result
WrapperReturn(r) == r

\* rate_limiter.py:255: @timeout(seconds=60)
StepwiseSeconds == 60

\* chess_demo.py:56: the largest max_moves validate_max_moves accepts
StepwiseMaxMoves == 200

\* rate_limiter.py:49-56 (timeout.wrapper) and 134 (time_limit): the call begins
BeginCall(kind, func, th, sec) ==
    /\ t_pc = "idle"
    /\ t_kind' = kind
    /\ t_func' = func
    /\ t_thread' = th
    /\ t_seconds' = sec
    /\ t_guarded' = (kind = "time_limit" \/ IsMainThread(th))
    /\ t_pc' = IF kind = "time_limit" \/ IsMainThread(th) THEN "signal" ELSE "running"
    /\ t_ran' = ~(kind = "time_limit" \/ IsMainThread(th))
    /\ t_exc' = "none"
    /\ t_res' = NoResult
    /\ t_outcome' = "none"
    /\ t_result' = NoResult
    /\ t_fired' = FALSE
    /\ UNCHANGED <<signalVars, t_old, notDeadline>>

\* rate_limiter.py:47-56: a call of a function decorated with timeout(seconds)
CallTimeout ==
    \E th \in {"main", "worker"}, sec \in 1..MaxSeconds, a \in 0..MaxArg,
       d \in 0..MaxDur, r \in BOOLEAN :
        /\ BeginCall("timeout", "generic", th, sec)
        /\ t_arg' = a
        /\ t_dur' = d
        /\ t_left' = d
        /\ t_raises' = r
        /\ UNCHANGED gameVars

\* rate_limiter.py:133-147: a with time_limit(seconds) block is entered
CallTimeLimit ==
    \E th \in {"main", "worker"}, sec \in 1..MaxSeconds, d \in 0..MaxDur, r \in BOOLEAN :
        /\ BeginCall("time_limit", "generic", th, sec)
        /\ t_arg' = 0
        /\ t_dur' = d
        /\ t_left' = d
        /\ t_raises' = r
        /\ UNCHANGED gameVars

\* chess_demo.py:255-256: a call of run_game_stepwise(max_moves)
CallStepwise ==
    \E th \in {"main", "worker"}, mm \in (0..MaxGameMoves) \cup {StepwiseMaxMoves + 1},
       int \in BOOLEAN, r \in {"None", "fresh"} :
        /\ BeginCall("timeout", "run_game_stepwise", th, StepwiseSeconds)
        /\ t_arg' = mm
        /\ t_dur' = 0
        /\ t_left' = 0
        /\ t_raises' = FALSE
        /\ g_pc' = IF IsMainThread(th) THEN "none" ELSE "validate"
        /\ g_max_moves' = mm
        /\ g_move_count' = 0
        /\ g_hist' = 0
        /\ g_turns' = <<>>
        /\ g_int' = int
        /\ g_rng' = r

\* rate_limiter.py:59 and 148: old_handler = signal.signal(signal.SIGALRM, timeout_handler)
SetHandler ==
    /\ t_pc = "signal"
    /\ ~sig_pending
    /\ IF SignalAllowed(t_thread)
       THEN /\ t_old' = handler
            /\ handler' = "timeout_handler"
            /\ t_pc' = "alarm"
            /\ UNCHANGED t_outcome
       ELSE /\ t_pc' = "done"
            /\ t_outcome' = "ValueError"
            /\ UNCHANGED <<t_old, handler>>
    /\ UNCHANGED <<alarm_left, sig_pending, callParams, t_left, t_ran, t_exc, t_res,
                   t_result, t_fired, gameVars, notDeadline>>

\* rate_limiter.py:60-63 and 149-152: signal.alarm(seconds), then the body is entered
Arm ==
    /\ t_pc = "alarm"
    /\ ~sig_pending
    /\ alarm_left' = ArmSeconds(t_seconds)
    /\ t_pc' = "running"
    /\ t_ran' = TRUE
    /\ g_pc' = IF t_func = "run_game_stepwise" THEN "validate" ELSE g_pc
    /\ UNCHANGED <<handler, sig_pending, callParams, t_old, t_left, t_exc, t_res,
                   t_outcome, t_result, t_fired, g_max_moves, g_move_count, g_hist,
                   g_turns, g_int, g_rng, notDeadline>>

\* the body ends: through the finally clause of the wrapper when the call took the
\* signal path (rate_limiter.py:64-69, 153-155), straight to the caller otherwise
\* (rate_limiter.py:56)
LeaveBody(exc, res) ==
    /\ t_exc' = exc
    /\ t_res' = res
    /\ IF t_guarded
       THEN /\ t_pc' = "cancel"
            /\ UNCHANGED <<t_outcome, t_result>>
       ELSE /\ t_pc' = "done"
            /\ t_outcome' = IF exc = "none" THEN "return" ELSE exc
            /\ t_result' = res

\* one second passes while a generic body runs; when the body would finish in the
\* very second the alarm expires, either may come first
Elapse ==
    /\ t_pc = "running"
    /\ t_func = "generic"
    /\ ~sig_pending
    /\ t_left > 0
    /\ t_left' = t_left - 1
    /\ \/ /\ alarm_left' = IF alarm_left > 0 THEN alarm_left - 1 ELSE 0
          /\ sig_pending' = (alarm_left = 1)
       \/ /\ alarm_left = 1
          /\ t_left = 1
          /\ UNCHANGED <<alarm_left, sig_pending>>
    /\ UNCHANGED <<handler, t_pc, callParams, t_old, t_ran, t_exc, t_res, t_outcome,
                   t_result, t_fired, gameVars, notDeadline>>

\* rate_limiter.py:63 and 152: the generic body finishes, returning or raising
FuncFinish ==
    /\ t_pc = "running"
    /\ t_func = "generic"
    /\ ~sig_pending
    /\ t_left = 0
    /\ IF t_raises
       THEN LeaveBody("FuncError", NoResult)
       ELSE LeaveBody("none", IF t_kind = "timeout" THEN Func(t_arg) ELSE NoResult)
    /\ UNCHANGED <<signalVars, callParams, t_old, t_left, t_ran, t_fired, gameVars,
                   notDeadline>>

\* rate_limiter.py:66 and 154: signal.alarm(0)
Cancel ==
    /\ t_pc = "cancel"
    /\ ~sig_pending
    /\ alarm_left' = 0
    /\ t_pc' = "restore"
    /\ UNCHANGED <<handler, sig_pending, callParams, t_old, t_left, t_ran, t_exc, t_res,
                   t_outcome, t_result, t_fired, gameVars, notDeadline>>

\* rate_limiter.py:67-69 and 155: signal.signal(signal.SIGALRM, old_handler), then
\* the pending exception propagates or the result is returned
Restore ==
    /\ t_pc = "restore"
    /\ ~sig_pending
    /\ handler' = t_old
    /\ t_pc' = "done"
    /\ t_outcome' = IF t_exc = "none" THEN "return" ELSE t_exc
    /\ t_result' = IF t_exc = "none" THEN WrapperReturn(t_res) ELSE NoResult
    /\ UNCHANGED <<alarm_left, sig_pending, callParams, t_old, t_left, t_ran, t_exc,
                   t_res, t_fired, gameVars, notDeadline>>

\* the caller has received the outcome; the next call may begin
Returned ==
    /\ t_pc = "done"
    /\ t_pc' = "idle"
    /\ UNCHANGED <<signalVars, callParams, t_old, t_left, t_ran, t_exc, t_res, t_outcome,
                   t_result, t_fired, gameVars, notDeadline>>

\* rate_limiter.py:24-26: SIGALRM arrives while a generic body runs; timeout_handler
\* raises TimeoutError in the body, which does not catch it
DeliverGeneric ==
    /\ sig_pending
    /\ handler = "timeout_handler"
    /\ t_pc = "running"
    /\ t_func = "generic"
    /\ sig_pending' = FALSE
    /\ t_fired' = TRUE
    /\ LeaveBody("TimeoutError", NoResult)
    /\ UNCHANGED <<handler, alarm_left, callParams, t_old, t_left, t_ran, gameVars,
                   notDeadline>>

NextTimeout ==
    \/ CallTimeout
    \/ CallTimeLimit
    \/ SetHandler
    \/ Arm
    \/ Elapse
    \/ FuncFinish
    \/ DeliverGeneric
    \/ Cancel
    \/ Restore
    \/ Returned

SpecTimeout == Init /\ [][NextTimeout]_vars

(***************************************************************************)
(* The same wrapper with the clock running during its cleanup: the body    *)
(* has ended, the finally clause has been entered and signal.alarm(0) has  *)
(* not been executed yet (rate_limiter.py:64-66, 153-154).                 *)
(***************************************************************************)

\* one second passes between the end of the body and signal.alarm(0)
ElapseCleanup ==
    /\ t_pc = "cancel"
    /\ ~sig_pending
    /\ alarm_left > 0
    /\ alarm_left' = alarm_left - 1
    /\ sig_pending' = (alarm_left = 1)
    /\ UNCHANGED <<handler, t_pc, callParams, t_old, t_left, t_ran, t_exc, t_res,
                   t_outcome, t_result, t_fired, gameVars, notDeadline>>

\* rate_limiter.py:24-26: SIGALRM arrives inside the finally clause, before line 66
\* (or 154). timeout_handler raises TimeoutError there: it replaces the result or
\* the exception of the body and the rest of the clause, signal.signal(SIGALRM,
\* old_handler) included, is not executed
DeliverCleanup ==
    /\ sig_pending
    /\ handler = "timeout_handler"
    /\ t_pc = "cancel"
    /\ sig_pending' = FALSE
    /\ t_fired' = TRUE
    /\ t_exc' = "TimeoutError"
    /\ t_res' = NoResult
    /\ t_pc' = "done"
    /\ t_outcome' = "TimeoutError"
    /\ t_result' = NoResult
    /\ UNCHANGED <<handler, alarm_left, callParams, t_old, t_left, t_ran, gameVars,
                   notDeadline>>

NextCleanup ==
    \/ CallTimeout
    \/ CallTimeLimit
    \/ SetHandler
    \/ Arm
    \/ Elapse
    \/ FuncFinish
    \/ DeliverGeneric
    \/ ElapseCleanup
    \/ DeliverCleanup
    \/ Cancel
    \/ Restore
    \/ Returned

SpecCleanup == Init /\ [][NextCleanup]_vars

(***************************************************************************)
(* A wrapper inside a wrapper: the body of a timeout-wrapped function,     *)
(* called on the main thread, first calls another timeout-wrapped function *)
(* (or enters a time_limit block) and then goes on with its own work.      *)
(* The process has one SIGALRM handler and one alarm: signal.alarm(n)      *)
(* replaces a pending alarm and signal.alarm(0) cancels it.                *)
(***************************************************************************)

notNest == <<now, limiterVars, concVars, costVars, scenarioVars, classifyVars,
             compareVars, metricsVars, rngVars, builderVars, runVars, explVars>>

\* rate_limiter.py:47-56: the outer call; its body needs b seconds before the inner
\* wrapper, nd seconds inside it and d seconds after it
CallNesting ==
    \E sec \in 1..MaxSeconds, d \in 0..MaxDur, b \in 0..MaxDur,
       nk \in {"timeout", "time_limit"}, ns \in 1..MaxSeconds, nd \in 0..MaxDur :
        /\ t_pc = "idle"
        /\ t_kind' = "timeout"
        /\ t_func' = "nesting"
        /\ t_thread' = "main"
        /\ t_seconds' = sec
        /\ t_guarded' = IsMainThread("main")
        /\ t_pc' = "signal"
        /\ t_ran' = FALSE
        /\ t_exc' = "none"
        /\ t_res' = NoResult
        /\ t_outcome' = "none"
        /\ t_result' = NoResult
        /\ t_fired' = FALSE
        /\ t_arg' = 0
        /\ t_dur' = d
        /\ t_left' = d
        /\ t_raises' = FALSE
        /\ n_pc' = "none"
        /\ n_kind' = nk
        /\ n_seconds' = ns
        /\ n_dur' = nd
        /\ n_left' = nd
        /\ n_exc' = "none"
        /\ n_before' = b
        /\ n_wait' = b
        /\ UNCHANGED <<signalVars, t_old, n_old, gameVars, notNest>>

InNesting(pos) ==
    /\ t_pc = "running"
    /\ t_func = "nesting"
    /\ n_pc = pos

\* rate_limiter.py:59 and 148, inner wrapper: old_handler is the handler the outer
\* wrapper installed
NSetHandler ==
    /\ InNesting("none")
    /\ ~sig_pending
    /\ n_wait = 0
    /\ n_old' = handler
    /\ handler' = "timeout_handler"
    /\ n_pc' = "alarm"
    /\ UNCHANGED <<alarm_left, sig_pending, callVars, n_kind, n_seconds, n_dur, n_left,
                   n_exc, n_before, n_wait, gameVars, notNest>>

\* rate_limiter.py:60 and 149, inner wrapper: signal.alarm(seconds) replaces the
\* alarm of the outer wrapper
NArm ==
    /\ InNesting("alarm")
    /\ ~sig_pending
    /\ alarm_left' = ArmSeconds(n_seconds)
    /\ n_pc' = "running"
    /\ UNCHANGED <<handler, sig_pending, callVars, n_kind, n_seconds, n_dur, n_left,
                   n_old, n_exc, n_before, n_wait, gameVars, notNest>>

\* one second passes while the inner body runs
NElapse ==
    /\ InNesting("running")
    /\ ~sig_pending
    /\ n_left > 0
    /\ n_left' = n_left - 1
    /\ \/ /\ alarm_left' = IF alarm_left > 0 THEN alarm_left - 1 ELSE 0
          /\ sig_pending' = (alarm_left = 1)
       \/ /\ alarm_left = 1
          /\ n_left = 1
          /\ UNCHANGED <<alarm_left, sig_pending>>
    /\ UNCHANGED <<handler, callVars, n_pc, n_kind, n_seconds, n_dur, n_old, n_exc,
                   n_before, n_wait, gameVars, notNest>>

\* rate_limiter.py:63 and 152: the inner body finishes
NFinish ==
    /\ InNesting("running")
    /\ ~sig_pending
    /\ n_left = 0
    /\ n_exc' = "none"
    /\ n_pc' = "cancel"
    /\ UNCHANGED <<signalVars, callVars, n_kind, n_seconds, n_dur, n_left, n_old,
                   n_before, n_wait, gameVars, notNest>>

\* rate_limiter.py:24-26: SIGALRM arrives while the inner body runs
NDeliver ==
    /\ sig_pending
    /\ handler = "timeout_handler"
    /\ InNesting("running")
    /\ sig_pending' = FALSE
    /\ t_fired' = TRUE
    /\ n_exc' = "TimeoutError"
    /\ n_pc' = "cancel"
    /\ UNCHANGED <<handler, alarm_left, t_pc, callParams, t_old, t_left, t_ran, t_exc,
                   t_res, t_outcome, t_result, n_kind, n_seconds, n_dur, n_left, n_old,
                   n_before, n_wait, gameVars, notNest>>

\* rate_limiter.py:66 and 154, inner wrapper: signal.alarm(0)
NCancel ==
    /\ InNesting("cancel")
    /\ ~sig_pending
    /\ alarm_left' = 0
    /\ n_pc' = "restore"
    /\ UNCHANGED <<handler, sig_pending, callVars, n_kind, n_seconds, n_dur, n_left,
                   n_old, n_exc, n_before, n_wait, gameVars, notNest>>

\* rate_limiter.py:67-69 and 155, inner wrapper: the handler of the outer wrapper
\* is installed again; the inner result is returned to the outer body, or the
\* inner exception goes through the outer body, which does not catch it
NRestore ==
    /\ InNesting("restore")
    /\ ~sig_pending
    /\ handler' = n_old
    /\ n_pc' = "done"
    /\ IF n_exc = "none"
       THEN UNCHANGED <<t_pc, t_exc, t_res, t_outcome, t_result>>
       ELSE LeaveBody(n_exc, NoResult)
    /\ UNCHANGED <<alarm_left, sig_pending, callParams, t_old, t_left, t_ran, t_fired,
                   n_kind, n_seconds, n_dur, n_left, n_old, n_exc, n_before, n_wait,
                   gameVars, notNest>>

\* one second passes while the outer body does its own work, before the inner
\* wrapper is entered or after it was left
OuterElapse ==
    /\ ~sig_pending
    /\ IF InNesting("none")
       THEN /\ n_wait > 0
            /\ n_wait' = n_wait - 1
            /\ t_left' = t_left
       ELSE /\ InNesting("done")
            /\ t_left > 0
            /\ t_left' = t_left - 1
            /\ n_wait' = n_wait
    /\ \/ /\ alarm_left' = IF alarm_left > 0 THEN alarm_left - 1 ELSE 0
          /\ sig_pending' = (alarm_left = 1)
       \/ /\ alarm_left = 1
          /\ InNesting("done")
          /\ t_left = 1
          /\ UNCHANGED <<alarm_left, sig_pending>>
    /\ UNCHANGED <<handler, t_pc, callParams, t_old, t_ran, t_exc, t_res, t_outcome,
                   t_result, t_fired, n_pc, n_kind, n_seconds, n_dur, n_left, n_old,
                   n_exc, n_before, gameVars, notNest>>

\* rate_limiter.py:63: the outer body returns
OuterFinish ==
    /\ InNesting("done")
    /\ ~sig_pending
    /\ t_left = 0
    /\ LeaveBody("none", Func(t_arg))
    /\ UNCHANGED <<signalVars, callParams, t_old, t_left, t_ran, t_fired, nestVars,
                   gameVars, notNest>>

\* rate_limiter.py:24-26: SIGALRM arrives while the outer body does its own work
OuterDeliver ==
    /\ sig_pending
    /\ handler = "timeout_handler"
    /\ (InNesting("none") \/ InNesting("done"))
    /\ sig_pending' = FALSE
    /\ t_fired' = TRUE
    /\ LeaveBody("TimeoutError", NoResult)
    /\ UNCHANGED <<handler, alarm_left, callParams, t_old, t_left, t_ran, nestVars,
                   gameVars, notNest>>

NextNested ==
    \/ CallNesting
    \/ SetHandler
    \/ Arm
    \/ NSetHandler
    \/ NArm
    \/ NElapse
    \/ NFinish
    \/ NDeliver
    \/ NCancel
    \/ NRestore
    \/ OuterElapse
    \/ OuterFinish
    \/ OuterDeliver
    \/ Cancel
    \/ Restore
    \/ Returned

SpecNested == Init /\ [][NextNested]_vars

(***************************************************************************)
(* Random sources. A random.Random object is a deterministic generator:    *)
(* each draw returns a value computed from its state and moves the state   *)
(* on. The state is a number below RngMod.                                 *)
(***************************************************************************)

\* the state after one draw
RngNext(st) == (st + 1) % RngMod

\* rng.randint(a, b): a value in a..b
RandInt(st, a, b) == a + (st % (b - a + 1))

\* rng.sample(node_list, 2) with len(node_list) = n: two distinct positions of the
\* list, in the order drawn; it takes two draws
Sample2(st, n) ==
    LET i == st % n
        j == RngNext(st) % (n - 1)
    IN  <<i, IF j >= i THEN j + 1 ELSE j>>

\* rng.uniform(0.1, 0.5): the value 0.1 + 0.4 * st / RngMod, named by st
Uniform(st) == st

\* k draws later
RECURSIVE RngSkip(_, _)
RngSkip(st, k) == IF k = 0 THEN st ELSE RngSkip(RngNext(st), k - 1)

(***************************************************************************)
(* run_game_stepwise under @timeout(seconds=60). The board is not          *)
(* modelled: whether the game is over and whether H_eff has collapsed are  *)
(* left open at every turn.                                                *)
(***************************************************************************)

stepwiseFrame == <<handler, callParams, t_old, t_left, t_ran, now, limiterVars, concVars,
                   costVars, scenarioVars, classifyVars, compareVars, metricsVars,
                   nestVars, builderVars, runVars, explVars>>

stepwiseFrameRng == <<stepwiseFrame, rng>>

InStepwise(pos) ==
    /\ t_pc = "running"
    /\ t_func = "run_game_stepwise"
    /\ ~sig_pending
    /\ g_pc = pos

\* chess_demo.py:275-281 and 324-326: validate_max_moves; its ValueError is re-raised
GValidate ==
    /\ InStepwise("validate")
    /\ IF g_int /\ g_max_moves \in 1..StepwiseMaxMoves
       THEN /\ g_pc' = "metrics0"
            /\ UNCHANGED <<t_pc, t_exc, t_res, t_outcome, t_result>>
       ELSE /\ g_pc' = "none"
            /\ LeaveBody(IF g_int THEN "ValueError" ELSE "TypeError", NoResult)
    /\ UNCHANGED <<alarm_left, sig_pending, t_fired, g_max_moves, g_move_count, g_hist,
                   g_turns, g_int, g_rng,
                   stepwiseFrameRng>>

\* chess_demo.py:284-285: the metrics of the initial position are recorded
GMetrics0 ==
    /\ InStepwise("metrics0")
    /\ g_hist' = 1
    /\ g_turns' = <<[turn |-> 0, label |-> "Posición inicial"]>>
    /\ g_pc' = "loop"
    /\ UNCHANGED <<alarm_left, sig_pending, t_pc, t_exc, t_res, t_outcome, t_result,
                   t_fired, g_max_moves, g_move_count, g_int, g_rng, stepwiseFrameRng>>

\* chess_demo.py:287-296: the loop head, the game-over test and the legal moves
GLoop ==
    /\ InStepwise("loop")
    /\ IF g_move_count >= g_max_moves
       THEN g_pc' = "ret"
       ELSE g_pc' \in {"move", "ret"}
    /\ UNCHANGED <<alarm_left, sig_pending, t_pc, t_exc, t_res, t_outcome, t_result,
                   t_fired, g_max_moves, g_move_count, g_hist,
                   g_turns, g_int, g_rng, stepwiseFrameRng>>

\* chess_demo.py:276-277: if rng is None: rng = _demo_rng
StepwiseSourceUsed(r) == IF r = "None" THEN "chess_demo._demo_rng" ELSE r

\* chess_demo.py:298-301: a random legal move is applied; rng.choice takes one draw
GMove ==
    /\ InStepwise("move")
    /\ g_pc' = "metrics"
    /\ rng' = IF g_rng = "fresh" THEN rng
              ELSE [rng EXCEPT ![StepwiseSourceUsed(g_rng)] = RngNext(@)]
    /\ UNCHANGED <<alarm_left, sig_pending, t_pc, t_exc, t_res, t_outcome, t_result,
                   t_fired, g_max_moves, g_move_count, g_hist,
                   g_turns, g_int, g_rng, stepwiseFrame>>

\* chess_demo.py:307-308: compute_holistic_metrics(board)
GMetrics ==
    /\ InStepwise("metrics")
    /\ g_pc' = "record"
    /\ UNCHANGED <<alarm_left, sig_pending, t_pc, t_exc, t_res, t_outcome, t_result,
                   t_fired, g_max_moves, g_move_count, g_hist,
                   g_turns, g_int, g_rng, stepwiseFrameRng>>

\* chess_demo.py:314 with the turn number of the position before the move
StepwiseTurnBefore(move_count) == move_count

\* chess_demo.py:314: the turn number recorded with the position after the move
StepwiseTurn(move_count) == move_count + 1

\* chess_demo.py:314-319: the state is recorded; the loop ends on a collapse
GRecord ==
    /\ InStepwise("record")
    /\ g_hist' = g_hist + 1
    /\ g_turns' = Append(g_turns, [turn |-> StepwiseTurn(g_move_count),
                                   label |-> "move_san"])
    /\ g_move_count' = g_move_count + 1
    /\ g_pc' \in {"loop", "ret"}
    /\ UNCHANGED <<alarm_left, sig_pending, t_pc, t_exc, t_res, t_outcome, t_result,
                   t_fired, g_max_moves, g_int, g_rng, stepwiseFrameRng>>

\* chess_demo.py:321-322: return history
GReturn ==
    /\ InStepwise("ret")
    /\ g_pc' = "none"
    /\ LeaveBody("none", g_hist)
    /\ UNCHANGED <<alarm_left, sig_pending, t_fired, g_max_moves, g_move_count, g_hist,
                   g_turns, g_int, g_rng,
                   stepwiseFrameRng>>

\* one second passes while run_game_stepwise runs under a pending alarm
ElapseGame ==
    /\ t_pc = "running"
    /\ t_func = "run_game_stepwise"
    /\ ~sig_pending
    /\ alarm_left > 0
    /\ alarm_left' = alarm_left - 1
    /\ sig_pending' = (alarm_left = 1)
    /\ UNCHANGED <<t_pc, t_exc, t_res, t_outcome, t_result, t_fired, gameVars,
                   stepwiseFrameRng>>

\* chess_demo.py:298-304 and 307-311: the two inner try blocks, whose
\* `except Exception` handlers log and break; inside the second one the exception
\* first passes mcl_chess.py:122-124, which turns it into a RuntimeError
StepwiseCatches(pos) == pos \in {"move", "metrics"}

\* rate_limiter.py:24-26: SIGALRM arrives while run_game_stepwise runs. The
\* TimeoutError raised by timeout_handler is an Exception: inside an inner try it
\* is caught and the loop is left (chess_demo.py:302-304, 309-311); anywhere else
\* in the function the outer handler turns it into RuntimeError
\* (chess_demo.py:327-329; for line 284 after mcl_chess.py:122-124 did the same)
DeliverGame ==
    /\ sig_pending
    /\ handler = "timeout_handler"
    /\ t_pc = "running"
    /\ t_func = "run_game_stepwise"
    /\ sig_pending' = FALSE
    /\ t_fired' = TRUE
    /\ IF StepwiseCatches(g_pc)
       THEN /\ g_pc' = "ret"
            /\ UNCHANGED <<t_pc, t_exc, t_res, t_outcome, t_result>>
       ELSE /\ g_pc' = "none"
            /\ LeaveBody("RuntimeError", NoResult)
    /\ UNCHANGED <<alarm_left, g_max_moves, g_move_count, g_hist,
                   g_turns, g_int, g_rng, stepwiseFrameRng>>

NextStepwise ==
    \/ CallStepwise
    \/ SetHandler
    \/ Arm
    \/ GValidate
    \/ GMetrics0
    \/ GLoop
    \/ GMove
    \/ GMetrics
    \/ GRecord
    \/ GReturn
    \/ ElapseGame
    \/ DeliverGame
    \/ Cancel
    \/ Restore
    \/ Returned

SpecStepwise == Init /\ [][NextStepwise]_vars

(***************************************************************************)
(* validate_computational_cost. A float is modelled by the exact fraction  *)
(* <<numerator, denominator>>, denominator > 0.                            *)
(***************************************************************************)

\* rate_limiter.py:178: MAX_MOVES_HARD
MAX_MOVES_HARD == 500

\* rate_limiter.py:179: MAX_NODES_HARD
MAX_NODES_HARD == 1000

\* a / b
Ratio(a, b) == <<a, b>>

\* x < y on fractions
RatLess(x, y) == x[1] * y[2] < y[1] * x[2]

\* max(x, y): y only if it is greater
RatMax(x, y) == IF RatLess(x, y) THEN y ELSE x

\* rate_limiter.py:182: max_moves / MAX_MOVES_HARD if max_moves else 0
MoveCost(m) == IF m # 0 THEN Ratio(m, MAX_MOVES_HARD) ELSE Ratio(0, 1)

\* rate_limiter.py:183: max_nodes / MAX_NODES_HARD if max_nodes else 0
NodeCost(n) == IF n # NoNodes /\ n # 0 THEN Ratio(n, MAX_NODES_HARD) ELSE Ratio(0, 1)

\* rate_limiter.py:184 taking the smaller of the two costs
TotalCostMin(m, n) ==
    IF RatLess(MoveCost(m), NodeCost(n)) THEN MoveCost(m) ELSE NodeCost(n)

\* rate_limiter.py:184: total_cost = max(move_cost, node_cost)
TotalCost(m, n) == RatMax(MoveCost(m), NodeCost(n))

\* rate_limiter.py:186-198: the dict returned
ValidateComputationalCost(m, n, w) ==
    [allowed |-> ~RatLess(Ratio(1, 1), TotalCost(m, n)),
     cost    |-> TotalCost(m, n),
     warning |-> IF RatLess(Ratio(1, 1), TotalCost(m, n)) THEN "blocked"
                 ELSE IF RatLess(w, TotalCost(m, n)) THEN "advisory"
                 ELSE "None"]

\* the requested sizes tried: around every multiple of 50 moves and of 100 nodes
ReqMoves == {m \in 0..MaxReqMoves : m % 50 \in {0, 1, 49}}

ReqNodes == {NoNodes} \cup {n \in 0..MaxReqNodes : n % 100 \in {0, 1, 99}}

\* the thresholds tried: 1/WarnDen, 2/WarnDen, ..., 1
WarnThresholds == {Ratio(k, WarnDen) : k \in 1..WarnDen}

\* rate_limiter.py:161-165: validate_computational_cost is called with its arguments
CostRequest ==
    /\ cost_pc = "idle"
    /\ \E m \in ReqMoves, n \in ReqNodes, w \in WarnThresholds :
        cost_in' = [moves |-> m, nodes |-> n, warn |-> w]
    /\ cost_pc' = "asked"
    /\ UNCHANGED <<cost_out, now, limiterVars, concVars, deadlineVars, engineVars>>

\* rate_limiter.py:177-198: the estimate is computed and returned
ValidateCost ==
    /\ cost_pc = "asked"
    /\ cost_out' = ValidateComputationalCost(cost_in.moves, cost_in.nodes, cost_in.warn)
    /\ cost_pc' = "answered"
    /\ UNCHANGED <<cost_in, now, limiterVars, concVars, deadlineVars, engineVars>>

\* the caller has read the estimate; the next request starts afresh
CostRead ==
    /\ cost_pc = "answered"
    /\ cost_pc' = "idle"
    /\ cost_in' = [moves |-> 0, nodes |-> NoNodes, warn |-> <<1, 1>>]
    /\ cost_out' = [allowed |-> TRUE, cost |-> <<0, 1>>, warning |-> "None"]
    /\ UNCHANGED <<now, limiterVars, concVars, deadlineVars, engineVars>>

NextCost == CostRequest \/ ValidateCost \/ CostRead

SpecCost == Init /\ [][NextCost]_vars

(***************************************************************************)
(* Scenario and simulate (compare_v42.py)                                  *)
(*                                                                         *)
(* Numbers are counted in one fixed unit, so that the sums, differences    *)
(* and comparisons of the code are exact.  Every argument is a number: the *)
(* isinstance tests of the validators pass.                                *)
(***************************************************************************)

\* max_val=None
NoMax == -1

\* compare_v42.py:99, 105: max_val=10000
SCENARIO_MAX == 10000

\* compare_v42.py:19-36: validate_positive_float returns the value (TRUE) or
\* raises ValueError (FALSE)
ValidatePositiveFloat(value, max_val, allow_zero) ==
    IF allow_zero /\ value < 0 THEN FALSE
    ELSE IF ~allow_zero /\ value <= 0 THEN FALSE
    ELSE IF max_val # NoMax /\ value > max_val THEN FALSE
    ELSE TRUE

\* compare_v42.py:39-45: validate_steps returns steps (TRUE) or raises (FALSE)
ValidateSteps(steps) == 1 <= steps /\ steps <= 1000

\* compare_v42.py:92: name is a string with something but blanks in it
ValidName(name) == name # "" /\ name # " "

\* compare_v42.py:90-113: Scenario.__init__ succeeds
ScenarioAccepted(name, H_eff_init, decay) ==
    /\ ValidName(name)
    /\ ValidatePositiveFloat(H_eff_init, SCENARIO_MAX, FALSE)
    /\ ValidatePositiveFloat(decay, SCENARIO_MAX, FALSE)

\* compare_v42.py:140 without the floor
DecayedNoFloor(H, decay) == H - decay

\* compare_v42.py:140: H = max(H - self.decay, 0)
Decayed(H, decay) == Max2(H - decay, 0)

RECURSIVE SimulateLoop(_, _, _, _)
\* compare_v42.py:136-141: the loop, with k iterations left
SimulateLoop(values, H, decay, k) ==
    IF k = 0 THEN values
    ELSE SimulateLoop(Append(values, H), Decayed(H, decay), decay, k - 1)

\* compare_v42.py:115-150: Scenario.simulate as one call: the exception raised and
\* the list returned
Simulate(self, steps) ==
    IF ~ValidateSteps(steps) THEN [exc |-> "ValueError", values |-> <<>>]
    ELSE [exc |-> "none", values |-> SimulateLoop(<<>>, self.H_eff_init, self.decay, steps)]

\* the names, initial values, decays and step counts tried
ScenarioNames == {"", "A"}

ScenarioValues == {-1, 0} \cup (1..MaxH) \cup {SCENARIO_MAX, SCENARIO_MAX + 1}

StepCounts == (0..MaxSteps) \cup {1000, 1001}

simVars == <<sim_pc, sim_steps, sim_values, sim_H, sim_i>>

\* compare_v42.py:90-113: Scenario(name, H_eff_init, decay)
NewScenario ==
    /\ sc_state = "absent"
    /\ \E name \in ScenarioNames, H \in ScenarioValues, d \in ScenarioValues :
        /\ sc_args' = [name |-> name, H_eff_init |-> H, decay |-> d]
        /\ IF ScenarioAccepted(name, H, d)
           THEN /\ sc_state' = "created"
                /\ sc_self' = [name |-> name, H_eff_init |-> H, decay |-> d]
           ELSE /\ sc_state' = "rejected"
                /\ UNCHANGED sc_self
    /\ UNCHANGED <<simVars, classifyVars, compareVars, metricsVars,
                   now, limiterVars, concVars, deadlineVars, costVars, extVars>>

\* compare_v42.py:132-137: s.simulate(steps) is called on the Scenario built:
\* steps is validated, values and H are initialised
SimulateCall ==
    /\ sc_state = "created"
    /\ sim_pc # "loop"
    /\ \E steps \in StepCounts :
        /\ sim_steps' = steps
        /\ sim_pc' = IF ValidateSteps(steps) THEN "loop" ELSE "raised"
    /\ sim_values' = <<>>
    /\ sim_H' = sc_self.H_eff_init
    /\ sim_i' = 0
    /\ UNCHANGED <<sc_state, sc_args, sc_self, classifyVars, compareVars, metricsVars,
                   now, limiterVars, concVars, deadlineVars, costVars, extVars>>

\* compare_v42.py:138-140: one iteration of the loop
SimulateStep ==
    /\ sim_pc = "loop"
    /\ sim_i < sim_steps
    /\ sim_values' = Append(sim_values, sim_H)
    /\ sim_H' = Decayed(sim_H, sc_self.decay)
    /\ sim_i' = sim_i + 1
    /\ UNCHANGED <<sc_state, sc_args, sc_self, sim_pc, sim_steps,
                   classifyVars, compareVars, metricsVars,
                   now, limiterVars, concVars, deadlineVars, costVars, extVars>>

\* compare_v42.py:143: return values
SimulateReturn ==
    /\ sim_pc = "loop"
    /\ sim_i = sim_steps
    /\ sim_pc' = "returned"
    /\ UNCHANGED <<sc_state, sc_args, sc_self, sim_steps, sim_values, sim_H, sim_i,
                   classifyVars, compareVars, metricsVars,
                   now, limiterVars, concVars, deadlineVars, costVars, extVars>>

\* the Scenario (or the failed construction) is dropped
DropScenario ==
    /\ sc_state \in {"created", "rejected"}
    /\ sim_pc # "loop"
    /\ sc_state' = "absent"
    /\ sc_args' = [name |-> "", H_eff_init |-> 0, decay |-> 0]
    /\ sc_self' = [name |-> "", H_eff_init |-> 0, decay |-> 0]
    /\ sim_pc' = "idle"
    /\ sim_steps' = 0
    /\ sim_values' = <<>>
    /\ sim_H' = 0
    /\ sim_i' = 0
    /\ UNCHANGED <<classifyVars, compareVars, metricsVars,
                   now, limiterVars, concVars, deadlineVars, costVars, extVars>>

NextScenario == NewScenario \/ SimulateCall \/ SimulateStep \/ SimulateReturn \/ DropScenario

SpecScenario == Init /\ [][NextScenario]_vars

(***************************************************************************)
(* classify (compare_v42.py)                                               *)
(***************************************************************************)

\* compare_v42.py:188-192: the five validate_positive_float calls all return
ClassifyArgsValid(H_eff, dH, alpha_h_min, alpha_decay_max, beta_h_min) ==
    /\ ValidatePositiveFloat(H_eff, NoMax, TRUE)
    /\ ValidatePositiveFloat(dH, NoMax, TRUE)
    /\ ValidatePositiveFloat(alpha_h_min, NoMax, TRUE)
    /\ ValidatePositiveFloat(alpha_decay_max, NoMax, TRUE)
    /\ ValidatePositiveFloat(beta_h_min, NoMax, TRUE)

\* compare_v42.py:194 with values on a threshold passing it
IsAlphaInclusive(H_eff, dH, alpha_h_min, alpha_decay_max) ==
    H_eff >= alpha_h_min /\ dH <= alpha_decay_max

\* compare_v42.py:194: H_eff > alpha_h_min and dH < alpha_decay_max
IsAlpha(H_eff, dH, alpha_h_min, alpha_decay_max) ==
    H_eff > alpha_h_min /\ dH < alpha_decay_max

\* compare_v42.py:187-206: classify; the class returned or the exception raised
Classify(H_eff, dH, alpha_h_min, alpha_decay_max, beta_h_min) ==
    IF ~ClassifyArgsValid(H_eff, dH, alpha_h_min, alpha_decay_max, beta_h_min)
    THEN "ValueError"
    ELSE IF IsAlpha(H_eff, dH, alpha_h_min, alpha_decay_max) THEN "Alpha"
    ELSE IF H_eff > beta_h_min THEN "Beta"
    ELSE "Gamma"

\* the values tried for each argument of classify
ClassifyValues == -1..MaxVal

\* compare_v42.py:156-206: classify is called and returns or raises
ClassifyCall ==
    /\ cl_pc = "idle"
    /\ \E H \in ClassifyValues, dH \in ClassifyValues, a \in ClassifyValues,
          dm \in ClassifyValues, b \in ClassifyValues :
        /\ cl_in' = [H_eff |-> H, dH |-> dH, alpha_h_min |-> a, alpha_decay_max |-> dm,
                     beta_h_min |-> b]
        /\ cl_out' = Classify(H, dH, a, dm, b)
    /\ cl_pc' = "answered"
    /\ UNCHANGED <<scenarioVars, compareVars, metricsVars,
                   now, limiterVars, concVars, deadlineVars, costVars, extVars>>

\* the caller has read the class; the next call starts afresh
ClassifyRead ==
    /\ cl_pc = "answered"
    /\ cl_pc' = "idle"
    /\ cl_in' = [H_eff |-> 0, dH |-> 0, alpha_h_min |-> 0, alpha_decay_max |-> 0,
                 beta_h_min |-> 0]
    /\ cl_out' = "None"
    /\ UNCHANGED <<scenarioVars, compareVars, metricsVars,
                   now, limiterVars, concVars, deadlineVars, costVars, extVars>>

NextClassify == ClassifyCall \/ ClassifyRead

SpecClassify == Init /\ [][NextClassify]_vars

(***************************************************************************)
(* compare, compare_with_thresholds (compare_v42.py) and compare_from_ui   *)
(* (compare_v42_ui_bridge.py)                                              *)
(*                                                                         *)
(* An element of the list passed is a record: kind "Scenario" for a        *)
(* Scenario object, with its attributes, and kind "other" for any other    *)
(* object.  The name of an element is its position in the list.            *)
(***************************************************************************)

\* a call that ends by raising ValueError(msg), simulated calls of simulate() made
Raised(msg, simulated) ==
    [exc |-> "ValueError", msg |-> msg, ranking |-> <<>>, simulated |-> simulated]

\* key(x) < key(y) for the key (-H_eff) alone
KeyLessPrimaryOnly(x, y) == -x.H_eff < -y.H_eff

\* compare_v42.py:280: key(x) < key(y) for the key (-x["H_eff"], x["dH_eff_dt"])
KeyLess(x, y) ==
    \/ -x.H_eff < -y.H_eff
    \/ (-x.H_eff = -y.H_eff /\ x.dH_eff_dt < y.dH_eff_dt)

\* list.sort is stable: e is placed behind every entry whose key is not greater
InsertStable(sorted, e) ==
    LET before == {k \in DOMAIN sorted : ~KeyLess(e, sorted[k])}
        p == Cardinality(before)
    IN  SubSeq(sorted, 1, p) \o <<e>> \o SubSeq(sorted, p + 1, Len(sorted))

RECURSIVE SortRanking(_)
\* compare_v42.py:279-281: results.sort(key=...)
SortRanking(results) ==
    IF results = <<>> THEN <<>>
    ELSE InsertStable(SortRanking(SubSeq(results, 1, Len(results) - 1)),
                      results[Len(results)])

\* compare_v42.py:263 always taking the initial value
CurrentHEffInit(series, steps, H_eff_init) == H_eff_init

\* compare_v42.py:263: series[-1] if steps > 1 else s.H_eff_init
CurrentHEff(series, steps, H_eff_init) ==
    IF steps > 1 THEN series[Len(series)] ELSE H_eff_init

RECURSIVE CompareLoop(_, _, _, _, _, _)
\* compare_v42.py:257-284: the loop from element i on, then the sort and return
CompareLoop(scenarios, i, results, simulated, th, steps) ==
    IF i > Len(scenarios)
    THEN [exc |-> "none", msg |-> "", ranking |-> SortRanking(results),
          simulated |-> simulated]
    ELSE LET s == scenarios[i] IN
         IF s.kind # "Scenario"
         THEN Raised("Elemento debe ser Scenario", simulated)
         ELSE LET series == Simulate(s, steps)
                  current_h_eff == CurrentHEff(series.values, steps, s.H_eff_init)
                  cls == Classify(current_h_eff, s.decay, th.alpha_h_min,
                                  th.alpha_decay_max, th.beta_h_min)
              IN  IF series.exc # "none" \/ cls = "ValueError"
                  THEN CompareLoop(scenarios, i + 1, results, simulated + 1, th, steps)
                  ELSE CompareLoop(scenarios, i + 1,
                                   Append(results, [name |-> s.name,
                                                    H_eff |-> current_h_eff,
                                                    dH_eff_dt |-> s.decay,
                                                    class |-> cls]),
                                   simulated + 1, th, steps)

\* compare_v42.py:212-291: compare
Compare(scenarios, is_list, alpha_h_min, alpha_decay_max, beta_h_min, steps) ==
    IF ~is_list THEN Raised("scenarios debe ser lista", 0)
    ELSE IF Len(scenarios) = 0
    THEN [exc |-> "none", msg |-> "", ranking |-> <<>>, simulated |-> 0]
    ELSE IF ~ValidateSteps(steps) THEN Raised("steps fuera de rango", 0)
    ELSE IF \/ ~ValidatePositiveFloat(alpha_h_min, NoMax, TRUE)
            \/ ~ValidatePositiveFloat(alpha_decay_max, NoMax, TRUE)
            \/ ~ValidatePositiveFloat(beta_h_min, NoMax, TRUE)
    THEN Raised("no puede ser negativo", 0)
    ELSE CompareLoop(scenarios, 1, <<>>, 0,
                     [alpha_h_min |-> alpha_h_min, alpha_decay_max |-> alpha_decay_max,
                      beta_h_min |-> beta_h_min], steps)

\* compare_v42.py:48-69: validate_thresholds on a dict with the three keys; the
\* message of the ValueError raised, "" when it returns
ValidateThresholds(thresholds) ==
    IF \/ ~ValidatePositiveFloat(thresholds.alpha_h_min, NoMax, TRUE)
       \/ ~ValidatePositiveFloat(thresholds.alpha_decay_max, NoMax, TRUE)
       \/ ~ValidatePositiveFloat(thresholds.beta_h_min, NoMax, TRUE)
    THEN "no puede ser negativo"
    ELSE IF thresholds.alpha_h_min <= thresholds.beta_h_min
    THEN "alpha_h_min debe ser mayor que beta_h_min"
    ELSE ""

\* compare_v42.py:294-309: compare_with_thresholds
CompareWithThresholds(scenarios, is_list, thresholds, steps) ==
    IF ValidateThresholds(thresholds) # ""
    THEN Raised(ValidateThresholds(thresholds), 0)
    ELSE Compare(scenarios, is_list, thresholds.alpha_h_min, thresholds.alpha_decay_max,
                 thresholds.beta_h_min, steps)

\* compare_v42_ui_bridge.py:12-18: build_thresholds
BuildThresholds(alpha_h, alpha_decay, beta_h) ==
    [alpha_h_min |-> alpha_h, alpha_decay_max |-> alpha_decay, beta_h_min |-> beta_h]

\* compare_v42_ui_bridge.py:21-34: compare_from_ui
CompareFromUi(scenarios, is_list, alpha_h, alpha_decay, beta_h, ui_steps) ==
    CompareWithThresholds(scenarios, is_list,
                          BuildThresholds(alpha_h, alpha_decay, beta_h), ui_steps)

\* the Scenario attributes tried: those the constructor accepts, and a decay
\* reassigned to a negative number after construction
CompareInits == {2, 3}

CompareDecays == {1, 2, -1}

\* the elements tried at position i of the list
Elements(i) ==
    {[kind |-> "Scenario", name |-> i, H_eff_init |-> H, decay |-> d] :
        H \in CompareInits, d \in CompareDecays}
    \cup {[kind |-> "other", name |-> i, H_eff_init |-> 0, decay |-> 0]}

\* the lists tried: every list of at most MaxScen elements
ScenarioLists ==
    UNION {{l \in [1..n -> UNION {Elements(i) : i \in 1..n}] :
                \A i \in 1..n : l[i] \in Elements(i)} : n \in 0..MaxScen}

\* the thresholds and the step counts tried
ThresholdValues == {-1, 0, 1, 2}

CompareSteps == (0..MaxSteps) \cup {1001}

CompareApis == {"compare", "compare_with_thresholds", "compare_from_ui"}

\* the entry point api is called with these arguments
CallApi(api, scenarios, is_list, a, dm, b, steps) ==
    IF api = "compare" THEN Compare(scenarios, is_list, a, dm, b, steps)
    ELSE IF api = "compare_with_thresholds"
    THEN CompareWithThresholds(scenarios, is_list, BuildThresholds(a, dm, b), steps)
    ELSE CompareFromUi(scenarios, is_list, a, dm, b, steps)

\* compare_v42.py:212-309, compare_v42_ui_bridge.py:21-34: one call of an entry
\* point, with a list or with an object that is not a list
CompareCall ==
    /\ cmp_pc = "idle"
    /\ \E api \in CompareApis, is_list \in BOOLEAN,
          a \in ThresholdValues, dm \in ThresholdValues, b \in ThresholdValues,
          steps \in CompareSteps :
        \E scenarios \in (IF is_list THEN ScenarioLists ELSE {<<>>}) :
            /\ cmp_in' = [api |-> api, is_list |-> is_list, scenarios |-> scenarios,
                          alpha_h_min |-> a, alpha_decay_max |-> dm, beta_h_min |-> b,
                          steps |-> steps]
            /\ cmp_out' = CallApi(api, scenarios, is_list, a, dm, b, steps)
    /\ cmp_pc' = "answered"
    /\ UNCHANGED <<scenarioVars, classifyVars, metricsVars,
                   now, limiterVars, concVars, deadlineVars, costVars, extVars>>

\* the caller has read the ranking; the next call starts afresh
CompareRead ==
    /\ cmp_pc = "answered"
    /\ cmp_pc' = "idle"
    /\ cmp_in' = [api |-> "none", is_list |-> TRUE, scenarios |-> <<>>,
                  alpha_h_min |-> 0, alpha_decay_max |-> 0, beta_h_min |-> 0, steps |-> 0]
    /\ cmp_out' = [exc |-> "none", msg |-> "", ranking |-> <<>>, simulated |-> 0]
    /\ UNCHANGED <<scenarioVars, classifyVars, metricsVars,
                   now, limiterVars, concVars, deadlineVars, costVars, extVars>>

NextCompare == CompareCall \/ CompareRead

SpecCompare == Init /\ [][NextCompare]_vars

(***************************************************************************)
(* compute_metrics (demo.py) and compute_holistic_metrics (mcl_chess.py)   *)
(*                                                                         *)
(* Floats are exact fractions <<numerator, denominator>>, denominator > 0. *)
(* The graph G is its set of nodes and its set of edges {a, b}; nodes is   *)
(* the dict name -> Node.  The board is its piece_map: one record per      *)
(* piece, with the number of squares board.attacks gives for it.           *)
(***************************************************************************)

RECURSIVE Gcd(_, _)
\* the greatest common divisor of a >= 0 and b >= 0, not both 0
Gcd(a, b) == IF b = 0 THEN a ELSE Gcd(b, a % b)

\* the fraction x in lowest terms
Reduced(x) ==
    LET g == Gcd(IF x[1] < 0 THEN -x[1] ELSE x[1], x[2])
    IN  <<x[1] \div g, x[2] \div g>>

\* x + y
RatAdd(x, y) == Reduced(<<x[1] * y[2] + y[1] * x[2], x[2] * y[2]>>)

\* x - y
RatSub(x, y) == Reduced(<<x[1] * y[2] - y[1] * x[2], x[2] * y[2]>>)

\* x * y
RatMul(x, y) == Reduced(<<x[1] * y[1], x[2] * y[2]>>)

\* min(x, y): y only if it is smaller
RatMin(x, y) == IF RatLess(y, x) THEN y ELSE x

RECURSIVE RatSum(_, _)
\* sum(f[k] for k in keys)
RatSum(keys, f) ==
    IF keys = {} THEN Ratio(0, 1)
    ELSE IF Cardinality(keys) = 1 THEN RatAdd(f[CHOOSE k \in keys : TRUE], Ratio(0, 1))
    ELSE LET m == CHOOSE k \in keys :
                      Cardinality({j \in keys : j < k}) = Cardinality(keys) \div 2
         IN  RatAdd(RatSum({j \in keys : j < m}, f), RatSum({j \in keys : j >= m}, f))

\* demo.py:38-41: Node.slack
Slack(node) == Max2(node.capacity - node.load, 0)

\* demo.py:153: G.degree() of the node v
Degree(edges, v) == Cardinality({e \in edges : v \in e})

\* demo.py:154: max(degrees.values()) if degrees else 1
MaxDegree(gnodes, edges) ==
    IF gnodes = {} THEN 1
    ELSE CHOOSE d \in {Degree(edges, v) : v \in gnodes} :
            \A v \in gnodes : Degree(edges, v) <= d

\* demo.py:159 without the division by max_degree
AccessibilityRaw(degree, max_degree) == Ratio(degree, 1)

\* demo.py:159 with an isolated node counted as a node of degree 1
AccessibilityFloor(degree, max_degree) == Ratio(Max2(degree, 1), max_degree)

\* demo.py:159: accessibility = degree / max_degree
Accessibility(degree, max_degree) == Ratio(degree, max_degree)

\* demo.py:149-160: H_eff
GraphHEff(gnodes, edges, nodes) ==
    IF Cardinality(edges) = 0 THEN Ratio(0, 1)
    ELSE RatSum({n \in DOMAIN nodes : Slack(nodes[n]) > 0 /\ n \in gnodes},
                [n \in DOMAIN nodes |->
                    RatMul(Ratio(Slack(nodes[n]), 1),
                           Accessibility(Degree(edges, n), MaxDegree(gnodes, edges)))])

\* demo.py:163: n.load / n.capacity if n.capacity > 0 else 0
Utilization(node) ==
    IF node.capacity > 0 THEN Ratio(node.load, node.capacity) ELSE Ratio(0, 1)

\* demo.py:167-168: the variance of the utilizations, the number S returns squared
Variance(nodes) ==
    LET len == Cardinality(DOMAIN nodes)
        u == [n \in DOMAIN nodes |-> Utilization(nodes[n])]
        mean_util == RatMul(RatSum(DOMAIN nodes, u), Ratio(1, len))
        dev2 == [n \in DOMAIN nodes |->
                    RatMul(RatSub(u[n], mean_util), RatSub(u[n], mean_util))]
    IN  RatMul(RatSum(DOMAIN nodes, dev2), Ratio(1, len))

\* demo.py:135-172: compute_metrics; S is the non-negative root of S2
ComputeMetrics(gnodes, edges, nodes) ==
    IF DOMAIN nodes = {}
    THEN [H |-> Ratio(0, 1), H_eff |-> Ratio(0, 1), S2 |-> Ratio(0, 1)]
    ELSE [H |-> RatSum(DOMAIN nodes, [n \in DOMAIN nodes |-> Ratio(Slack(nodes[n]), 1)]),
          H_eff |-> GraphHEff(gnodes, edges, nodes),
          S2 |-> Variance(nodes)]

\* mcl_chess.py:37-44: PIECE_CAPACITY, by chess piece type 1 (pawn) .. 6 (king)
PIECE_CAPACITY == <<1, 3, 3, 5, 9, 10>>

\* mcl_chess.py:47: ACCESS_WEIGHT = 0.5
ACCESS_WEIGHT == Ratio(1, 2)

\* mcl_chess.py:92: PIECE_CAPACITY.get(piece.piece_type, 0)
Capacity(piece_type) ==
    IF piece_type \in DOMAIN PIECE_CAPACITY THEN PIECE_CAPACITY[piece_type] ELSE 0

\* mcl_chess.py:111-113: what one piece adds to H_eff
PieceHEff(piece) ==
    IF piece.mobility > 0
    THEN RatMul(RatMul(Ratio(Capacity(piece.piece_type), 1),
                       RatMin(Ratio(piece.mobility, 8), Ratio(1, 1))),
                ACCESS_WEIGHT)
    ELSE Ratio(0, 1)

\* mcl_chess.py:84-117: compute_holistic_metrics; it returns (H, H_eff) only
ComputeHolisticMetrics(pieces) ==
    LET counted == {k \in DOMAIN pieces : Capacity(pieces[k].piece_type) # 0}
    IN  [H |-> RatSum(counted, [k \in DOMAIN pieces |->
                                    Ratio(Capacity(pieces[k].piece_type), 1)]),
         H_eff |-> RatSum(counted, [k \in DOMAIN pieces |-> PieceHEff(pieces[k])]),
         S2 |-> Ratio(0, 1)]

\* the Nodes tried, as <<capacity, load>>: spare capacity, overload, no capacity
NodeShapes == {<<2, 0>>, <<2, 1>>, <<1, 2>>, <<0, 1>>}

\* the dicts tried: any of the names 1..MaxNodes, each with any of the Nodes
NodeDicts ==
    UNION {[keys -> {[capacity |-> c[1], load |-> c[2]] : c \in NodeShapes}] :
                keys \in SUBSET (1..MaxNodes)}

\* the edges possible between the nodes of gnodes
Pairs(gnodes) == {e \in SUBSET gnodes : Cardinality(e) = 2}

\* the pieces tried: each piece type with none, one, eight or all of a queen's squares
Mobilities == {0, 1, 8, 27}

PieceMaps ==
    UNION {[1..n -> {[piece_type |-> ty, mobility |-> mob] :
                        ty \in DOMAIN PIECE_CAPACITY, mob \in Mobilities}] :
                n \in 0..MaxPieces}

\* demo.py:115-179: compute_metrics(G, nodes) is called and returns
GraphMetrics ==
    /\ met_pc = "idle"
    /\ \E nodes \in NodeDicts, gnodes \in SUBSET (1..MaxNodes) :
        \E edges \in SUBSET Pairs(gnodes) :
            /\ met_in' = [fn |-> "compute_metrics", nodes |-> nodes, gnodes |-> gnodes,
                          edges |-> edges, pieces |-> <<>>]
            /\ met_out' = ComputeMetrics(gnodes, edges, nodes)
    /\ met_pc' = "answered"
    /\ UNCHANGED <<scenarioVars, classifyVars, compareVars,
                   now, limiterVars, concVars, deadlineVars, costVars, extVars>>

\* mcl_chess.py:53-124: compute_holistic_metrics(board) is called and returns
BoardMetrics ==
    /\ met_pc = "idle"
    /\ \E pieces \in PieceMaps :
        /\ met_in' = [fn |-> "compute_holistic_metrics", nodes |-> <<>>, gnodes |-> {},
                      edges |-> {}, pieces |-> pieces]
        /\ met_out' = ComputeHolisticMetrics(pieces)
    /\ met_pc' = "answered"
    /\ UNCHANGED <<scenarioVars, classifyVars, compareVars,
                   now, limiterVars, concVars, deadlineVars, costVars, extVars>>

\* the caller has read the metrics; the next call starts afresh
MetricsRead ==
    /\ met_pc = "answered"
    /\ met_pc' = "idle"
    /\ met_in' = [fn |-> "none", nodes |-> <<>>, gnodes |-> {}, edges |-> {},
                  pieces |-> <<>>]
    /\ met_out' = [H |-> <<0, 1>>, H_eff |-> <<0, 1>>, S2 |-> <<0, 1>>]
    /\ UNCHANGED <<scenarioVars, classifyVars, compareVars,
                   now, limiterVars, concVars, deadlineVars, costVars, extVars>>

NextMetrics == GraphMetrics \/ BoardMetrics \/ MetricsRead

SpecMetrics == Init /\ [][NextMetrics]_vars

\* random.Random(seed): the caller creates, or creates anew, a generator
NewSource ==
    /\ bg_pc = "idle"
    /\ \E r \in CallerSources, seed \in 0..(RngMod - 1) :
        rng' = [rng EXCEPT ![r] = Seeded(seed)]
    /\ UNCHANGED <<builderVars, nestVars, runVars, explVars, coreVars>>

(***************************************************************************)
(* build_graph (demo.py). The graph is its list of nodes, N0, N1, ..., each *)
(* with capacity and load, and its set of edges, each with its two ends    *)
(* and its friction. n is given with its type: is_int is FALSE for a float *)
(* or a string.                                                            *)
(***************************************************************************)

\* demo.py:50-56 without the upper limit
ValidateNodeCountNoLimit(n) ==
    IF ~n.is_int THEN "TypeError"
    ELSE IF ~(1 <= n.val) THEN "ValueError"
    ELSE "none"

\* demo.py:50-56: validate_node_count
ValidateNodeCount(n) ==
    IF ~n.is_int THEN "TypeError"
    ELSE IF ~(1 <= n.val /\ n.val <= 100) THEN "ValueError"
    ELSE "none"

\* demo.py:79-80 with the argument ignored
SourceUsedDefault(r) == "demo._demo_rng"

\* demo.py:79-80: if rng is None: rng = _demo_rng
SourceUsed(r) == IF r = "None" THEN "demo._demo_rng" ELSE r

\* demo.py:86-91: the loop over range(n); node i takes two draws
RECURSIVE BuildNodes(_, _, _, _)
BuildNodes(i, n, st, nodes) ==
    IF i = n THEN nodes
    ELSE LET cap == RandInt(st, 80, 120)
             load == RandInt(RngNext(st), 40, cap)
         IN  BuildNodes(i + 1, n, RngSkip(st, 2),
                        Append(nodes, [name |-> i, capacity |-> cap, load |-> load]))

\* demo.py:99: G.add_edge(a, b, friction=f); an edge already there keeps its place
\* and takes the new friction
AddEdge(edges, a, b, f) ==
    {e \in edges : e.ends # {a, b}} \cup {[ends |-> {a, b}, friction |-> f]}

\* demo.py:94-99: the loop over range(n + 2); each round takes three draws
RECURSIVE BuildEdges(_, _, _, _)
BuildEdges(k, n, st, edges) ==
    IF k = n + 2 \/ n < 2 THEN edges
    ELSE LET ab == Sample2(st, n)
             f == Uniform(RngSkip(st, 2))
         IN  BuildEdges(k + 1, n, RngSkip(st, 3), AddEdge(edges, ab[1], ab[2], f))

\* the number of draws build_graph(n) makes
BuildDraws(n) == 2 * n + (IF n < 2 THEN 0 ELSE 3 * (n + 2))

\* demo.py:62-109: build_graph(n, rng), the source being in state st
BuildGraph(n, st) ==
    IF ValidateNodeCount(n) # "none"
    THEN [exc |-> ValidateNodeCount(n), nodes |-> <<>>, edges |-> {}, st |-> st]
    ELSE [exc |-> "none",
          nodes |-> BuildNodes(0, n.val, st, <<>>),
          edges |-> BuildEdges(0, n.val, RngSkip(st, 2 * n.val), {}),
          st |-> RngSkip(st, BuildDraws(n.val))]

\* the values passed for n
NodeCounts ==
    {[is_int |-> TRUE, val |-> v] : v \in (0..MaxBuildNodes) \cup {101}}
        \cup {[is_int |-> FALSE, val |-> 2]}

notBuilder == <<nestVars, runVars, explVars, coreVars>>

\* demo.py:62-109: a call of build_graph(n, rng)
BuildGraphCall ==
    /\ bg_pc = "idle"
    /\ \E n \in NodeCounts, r \in {"None"} \cup CallerSources :
        /\ r # "None" => rng[r] # NoSource
        /\ LET out == BuildGraph(n, rng[SourceUsed(r)]) IN
            /\ bg_in' = [n |-> n, rng |-> r,
                         st |-> IF r = "None" THEN NoSource ELSE rng[r]]
            /\ bg_out' = [exc |-> out.exc, nodes |-> out.nodes, edges |-> out.edges]
            /\ rng' = [rng EXCEPT ![SourceUsed(r)] = out.st]
    /\ bg_pc' = "answered"
    /\ UNCHANGED <<bg_prev, notBuilder>>

\* the caller keeps the graph built from its own source, to compare it with a
\* later one
BuildRead ==
    /\ bg_pc = "answered"
    /\ bg_pc' = "idle"
    /\ bg_prev' = IF bg_in.rng # "None" /\ bg_out.exc = "none"
                  THEN [set |-> TRUE, n |-> bg_in.n.val, st |-> bg_in.st,
                        nodes |-> bg_out.nodes, edges |-> bg_out.edges]
                  ELSE bg_prev
    /\ bg_in' = NoBuildIn
    /\ bg_out' = NoBuildOut
    /\ UNCHANGED <<rng, notBuilder>>

NextBuilder == NewSource \/ BuildGraphCall \/ BuildRead

SpecBuilder == Init /\ [][NextBuilder]_vars

(***************************************************************************)
(* run_game (mcl_chess.py). python-chess is not modelled square by square: *)
(* a position is the record described at InitialBoard, and the legal moves *)
(* are listed by kind. From the initial position no capture is legal       *)
(* before the third move pushed, no mate before the fourth, and no pawn    *)
(* promotes before the ninth, nor before some capture has cleared its way. *)
(***************************************************************************)

\* board.piece_map() with len(board.attacks(square)) for each piece: the pieces
\* left of the 32 of chess.Board(), with the mobility they have there; a promoted
\* pawn is a queen, a developed knight attacks 8 squares
PieceMap(board) ==
    LET pawns == 16 - board.taken - board.queens
        piece(ty, mob) == [piece_type |-> ty, mobility |-> mob]
    IN  [i \in 1..pawns |-> piece(1, IF i <= 12 THEN 2 ELSE 1)]
            \o <<piece(2, IF board.opened > 0 THEN 8 ELSE 3), piece(2, 3), piece(2, 3),
                 piece(2, 3)>>
            \o [i \in 1..4 |-> piece(3, 2)]
            \o [i \in 1..4 |-> piece(4, 2)]
            \o [i \in 1..(2 + board.queens) |-> piece(5, 5)]
            \o <<piece(6, 5), piece(6, 5)>>

\* board.is_game_over()
IsGameOver(board) == board.over

\* list(board.legal_moves) with promotions left out
LegalMovesNoPromotion(board) ==
    IF board.over THEN <<>>
    ELSE <<"quiet">>
            \o (IF board.opened = 0 THEN <<"develop">> ELSE <<>>)
            \o (IF board.ply >= 2 /\ board.taken < MaxTaken THEN <<"capture">> ELSE <<>>)
            \o (IF board.ply >= 3 THEN <<"mate">> ELSE <<>>)

\* list(board.legal_moves), by kind
LegalMoves(board) ==
    IF board.over THEN <<>>
    ELSE <<"quiet">>
            \o (IF board.opened = 0 THEN <<"develop">> ELSE <<>>)
            \o (IF board.ply >= 2 /\ board.taken < MaxTaken THEN <<"capture">> ELSE <<>>)
            \o (IF board.ply >= 8 /\ board.taken >= 1 /\ board.queens < MaxTaken
                THEN <<"promote">> ELSE <<>>)
            \o (IF board.ply >= 3 THEN <<"mate">> ELSE <<>>)

\* board.push(move)
Push(board, move) ==
    [taken |-> board.taken + (IF move = "capture" THEN 1 ELSE 0),
     queens |-> board.queens + (IF move = "promote" THEN 1 ELSE 0),
     opened |-> board.opened + (IF move = "develop" THEN 1 ELSE 0),
     ply |-> board.ply + 1,
     over |-> move = "mate"]

\* mcl_chess.py:29: the largest max_moves validate_max_moves accepts
RunGameMaxMoves == 500

\* mcl_chess.py:25-31 without the upper limit
ValidateMaxMovesNoLimit(max_moves) ==
    IF ~max_moves.is_int THEN "TypeError"
    ELSE IF ~(1 <= max_moves.val) THEN "ValueError"
    ELSE "none"

\* mcl_chess.py:25-31: validate_max_moves
ValidateMaxMoves(max_moves) ==
    IF ~max_moves.is_int THEN "TypeError"
    ELSE IF ~(1 <= max_moves.val /\ max_moves.val <= RunGameMaxMoves) THEN "ValueError"
    ELSE "none"

\* mcl_chess.py:150-151 reading the generator of the random module
RunSourceUsedGlobal(r) == IF r = "None" THEN "random" ELSE r

\* mcl_chess.py:150-151: if rng is None: rng = _chess_rng
RunSourceUsed(r) == IF r = "None" THEN "mcl_chess._chess_rng" ELSE r

\* mcl_chess.py:164: the collapse threshold 0.1
Collapsed(H_eff) == ~RatLess(Ratio(1, 10), H_eff)

notRun == <<nestVars, builderVars, explVars, coreVars>>

\* random.seed(seed): the generator of the random module is seeded
GlobalSeed ==
    /\ rg_pc = "idle"
    /\ \E seed \in 0..(RngMod - 1) :
        /\ rng' = [rng EXCEPT !["random"] = Seeded(seed)]
        /\ rg_seeded' = seed
    /\ UNCHANGED <<rg_pc, rg_in, rg_board, rg_move_count, rg_hist, rg_exc, rg_prev,
                   notRun>>

\* mcl_chess.py:130-155: run_game(max_moves, rng) is called: validation, the choice
\* of the source, board = chess.Board(), history = []. The source "fresh" is a
\* generator of the caller in a state the program does not know, such as
\* random.Random()
RunGameCall(max_moves, r) ==
    /\ rg_pc = "idle"
    /\ rg_in' = [max_moves |-> max_moves, rng |-> r, seed |-> rg_seeded]
    /\ rg_seeded' = NoSource
    /\ rg_exc' = ValidateMaxMoves(max_moves)
    /\ rg_pc' = IF ValidateMaxMoves(max_moves) = "none" THEN "loop" ELSE "done"
    /\ rg_board' = InitialBoard
    /\ rg_move_count' = 0
    /\ rg_hist' = <<>>
    /\ UNCHANGED <<rng, rg_prev, notRun>>

\* mcl_chess.py:157-167: the head of an iteration: the end of range(max_moves), the
\* game-over test, the metrics, history.append, the collapse test
RGRecord ==
    /\ rg_pc = "loop"
    /\ IF rg_move_count >= rg_in.max_moves.val \/ IsGameOver(rg_board)
       THEN /\ rg_pc' = "done"
            /\ rg_hist' = rg_hist
       ELSE LET m == ComputeHolisticMetrics(PieceMap(rg_board)) IN
            /\ rg_hist' = Append(rg_hist, [turn |-> rg_move_count, H |-> m.H,
                                           H_eff |-> m.H_eff])
            /\ rg_pc' = IF Collapsed(m.H_eff) THEN "done" ELSE "move"
    /\ UNCHANGED <<rng, rg_in, rg_board, rg_move_count, rg_exc, rg_prev, rg_seeded,
                   notRun>>

\* mcl_chess.py:169-181: the legal moves, rng.choice and board.push; then the next
\* value of move_count
RGMove ==
    /\ rg_pc = "move"
    /\ IF LegalMoves(rg_board) = <<>>
       THEN /\ rg_pc' = "done"
            /\ UNCHANGED <<rng, rg_board, rg_move_count>>
       ELSE /\ IF rg_in.rng = "fresh"
               THEN /\ \E k \in DOMAIN LegalMoves(rg_board) :
                        rg_board' = Push(rg_board, LegalMoves(rg_board)[k])
                    /\ rng' = rng
               ELSE LET src == RunSourceUsed(rg_in.rng)
                        k == (rng[src] % Len(LegalMoves(rg_board))) + 1
                    IN  /\ rg_board' = Push(rg_board, LegalMoves(rg_board)[k])
                        /\ rng' = [rng EXCEPT ![src] = RngNext(rng[src])]
            /\ rg_move_count' = rg_move_count + 1
            /\ rg_pc' = "loop"
    /\ UNCHANGED <<rg_in, rg_hist, rg_exc, rg_prev, rg_seeded, notRun>>

\* mcl_chess.py:184-191: the history is returned, or the exception reaches the
\* caller; the caller keeps the history of a call made without rng
RunGameRead ==
    /\ rg_pc = "done"
    /\ rg_pc' = "idle"
    /\ rg_prev' = IF rg_in.rng = "None" /\ rg_exc = "none"
                  THEN [set |-> TRUE, max_moves |-> rg_in.max_moves.val,
                        seed |-> rg_in.seed, hist |-> rg_hist]
                  ELSE rg_prev
    /\ rg_in' = NoRunIn
    /\ rg_board' = InitialBoard
    /\ rg_move_count' = 0
    /\ rg_hist' = <<>>
    /\ rg_exc' = "none"
    /\ UNCHANGED <<rng, rg_seeded, notRun>>

\* the values passed for max_moves
RunMoves ==
    {[is_int |-> TRUE, val |-> v] : v \in {0, 1, 2, MaxRunMoves, 501}}
        \cup {[is_int |-> FALSE, val |-> 2]}

ReseedMoves == {[is_int |-> TRUE, val |-> v] : v \in 1..MaxReseedMoves}

\* games played with a source of the caller
NextRunGame ==
    \/ \E mm \in RunMoves : RunGameCall(mm, "fresh")
    \/ RGRecord
    \/ RGMove
    \/ RunGameRead

SpecRunGame == Init /\ [][NextRunGame]_vars

\* games played without rng, the random module being reseeded between them
NextReseed ==
    \/ GlobalSeed
    \/ \E mm \in ReseedMoves : RunGameCall(mm, "None")
    \/ RGRecord
    \/ RGMove
    \/ RunGameRead

SpecReseed == Init /\ [][NextReseed]_vars

\* both game loops; the program is in one call at a time
NextGames ==
    \/ (CallInit /\ GameInit /\ NextRunGame)
    \/ (RunInit /\ NextStepwise)

SpecGames == Init /\ [][NextGames]_vars

\* the sources in S are as they were created at import, or not created
Untouched(S) ==
    \A r \in S : rng[r] = IF r \in ModuleSources THEN Seeded(DefaultSeed) ELSE NoSource

\* games played with the module's default source or with a source of the caller
RunGameSourced ==
    \/ \E mm \in RunMoves, r \in {"None", "rng1"} :
           /\ rng[RunSourceUsed(r)] # NoSource
           /\ RunGameCall(mm, r)
    \/ RGRecord
    \/ RGMove
    \/ RunGameRead

\* the four operations that validate a size; the program is in one call at a time
NextValidation ==
    \/ (/\ RunInit /\ CallInit /\ GameInit /\ ScenarioInit
        /\ Untouched({"mcl_chess._chess_rng", "chess_demo._demo_rng"})
        /\ NextBuilder)
    \/ (/\ BuilderInit /\ CallInit /\ GameInit /\ ScenarioInit
        /\ Untouched({"demo._demo_rng", "chess_demo._demo_rng", "rng2"})
        /\ RunGameSourced)
    \/ (/\ BuilderInit /\ RunInit /\ ScenarioInit
        /\ Untouched(Sources \ {"chess_demo._demo_rng"})
        /\ NextStepwise)
    \/ (/\ BuilderInit /\ RunInit /\ CallInit /\ GameInit /\ RngInit
        /\ NextScenario)

SpecValidation == Init /\ [][NextValidation]_vars

(***************************************************************************)
(* explanations: obtener_explicacion_con_fuente                            *)
(***************************************************************************)

notExpl == <<nestVars, rngVars, builderVars, runVars, coreVars>>

OYENTE_TYPES == {"técnico", "no técnico", "gerencial", "usuario final"}

\* str.strip()
Strip(s) == [s EXCEPT !.pad = FALSE]

\* isinstance(v, str) and v.strip() is not empty
NonBlankStr(v) == v.t = "str" /\ Strip(v).core # ""

\* isinstance(v, (int, float)) and v > 0
PositiveNumber(v) == v.t \in {"int", "float"} /\ v.sign > 0

\* variant: a float() that converts every int
ToFloatTotal(v) == [exc |-> "none", val |-> Num("float", v.sign, FALSE)]

\* float(v) of a number: an int beyond the float range raises OverflowError
ToFloat(v) ==
    IF v.t = "int" /\ v.big
    THEN [exc |-> "OverflowError", val |-> NotNum]
    ELSE [exc |-> "none", val |-> Num("float", v.sign, FALSE)]

\* scenario.get("decay", scenario.get("dH_eff_dt"))
GetDecay(sc) ==
    IF sc.decay.t # "absent" THEN sc.decay
    ELSE IF sc.dH_eff_dt.t # "absent" THEN sc.dH_eff_dt ELSE NotNum

\* _validate_scenario: the exception raised, or the cleaned dict
ValidateScenario(sc) ==
    LET decay == GetDecay(sc)
        h     == ToFloat(sc.H_eff)
        d     == ToFloat(decay)
    IN  IF ~sc.dict THEN [exc |-> "ValueError", val |-> NoScenario]
        ELSE IF ~NonBlankStr(sc.name) THEN [exc |-> "ValueError", val |-> NoScenario]
        ELSE IF ~PositiveNumber(sc.H_eff) THEN [exc |-> "ValueError", val |-> NoScenario]
        ELSE IF ~PositiveNumber(decay) THEN [exc |-> "ValueError", val |-> NoScenario]
        ELSE IF h.exc # "none" THEN [exc |-> h.exc, val |-> NoScenario]
        ELSE IF d.exc # "none" THEN [exc |-> d.exc, val |-> NoScenario]
        ELSE [exc |-> "none",
              val |-> [dict |-> TRUE, name |-> Strip(sc.name), H_eff |-> h.val,
                       decay |-> d.val, dH_eff_dt |-> Absent]]

\* _validate_classification
ValidateClassification(c) ==
    IF ~NonBlankStr(c) THEN [exc |-> "ValueError", val |-> NotStr]
    ELSE [exc |-> "none", val |-> Strip(c)]

\* _validate_oyente_type
ValidateOyenteType(o) ==
    IF o.t # "str" THEN [exc |-> "ValueError", val |-> NotStr]
    ELSE IF Strip(o).core \notin OYENTE_TYPES THEN [exc |-> "ValueError", val |-> NotStr]
    ELSE [exc |-> "none", val |-> Strip(o)]

\* the three validations in the order the code makes them: the first exception
ValidateAll(sc, c, o) ==
    LET vs == ValidateScenario(sc)
        vc == ValidateClassification(c)
        vo == ValidateOyenteType(o)
    IN  [exc |-> IF vs.exc # "none" THEN vs.exc
                 ELSE IF vc.exc # "none" THEN vc.exc ELSE vo.exc,
         scenario |-> vs.val, classification |-> vc.val, oyente_type |-> vo.val]

\* Interpreter(scenario, classification, oyente_type).interpret(): __post_init__
\* validates again, then the template of the audience is filled in
Interpret(sc, c, o) ==
    LET v == ValidateAll(sc, c, o)
    IN  IF v.exc # "none" THEN [exc |-> v.exc, text |-> NoText]
        ELSE [exc |-> "none",
              text |-> [kind |-> "template", body |-> "",
                        audience |-> v.oyente_type.core,
                        name |-> v.scenario.name.core,
                        classification |-> v.classification.core,
                        numbers |-> IF v.oyente_type.core = "técnico"
                                    THEN <<v.scenario.H_eff, v.scenario.decay>>
                                    ELSE <<>>]]

\* the except branch of obtener_explicacion_con_fuente
LocalFallback(collab) ==
    LET i == Interpret(ex_in.scenario, ex_in.classification, ex_in.oyente_type)
    IN  IF i.exc # "none"
        THEN [outcome |-> "raise", exc |-> i.exc, text |-> NoText, source |-> "none",
              collab |-> collab]
        ELSE [outcome |-> "return", exc |-> "none", text |-> i.text,
              source |-> "LOCAL_FALLBACK", collab |-> collab]

\* obtener_explicacion_ia after the call: output_text is a str with something
\* other than whitespace in it
ResponseUsable(resp) == resp.how = "return" /\ NonBlankStr(resp.text)

\* the inputs
ScenarioInputs ==
    {NoScenario} \cup
    [dict : {TRUE},
     name : {Str(TRUE, "Escenario A"), Str(TRUE, ""), NotStr},
     H_eff : {Num("float", 1, FALSE), Num("int", 1, TRUE), Num("int", 0, FALSE), NotNum},
     decay : {Num("int", 1, FALSE), Num("float", -1, FALSE), Absent},
     dH_eff_dt : {Num("float", 1, FALSE), Absent}]

ClassificationInputs == {Str(TRUE, "Alpha"), Str(TRUE, ""), NotStr}

OyenteInputs ==
    {Str(FALSE, o) : o \in OYENTE_TYPES} \cup
    {Str(TRUE, "gerencial"), Str(FALSE, "desconocido"), NotStr}

ClientInputs ==
    {[client |-> "given", api_key |-> FALSE, sdk |-> FALSE],
     [client |-> "None", api_key |-> TRUE, sdk |-> FALSE]} \cup
    [client : {"None"}, api_key : BOOLEAN, sdk : {TRUE}]

\* what client.responses.create can do
Responses ==
    {[how |-> "raise", text |-> NotStr], [how |-> "return", text |-> NotStr]} \cup
    [how : {"return"},
     text : {Str(TRUE, "Respuesta IA"), Str(FALSE, ""), Str(TRUE, "")}]

\* obtener_explicacion_con_fuente(scenario, classification, oyente_type, client=...)
\* up to the call of obtener_explicacion_ia
ExplainCall ==
    \E sc \in ScenarioInputs, c \in ClassificationInputs, o \in OyenteInputs,
       cl \in ClientInputs :
        LET v == ValidateAll(sc, c, o)
        IN  /\ ex_pc = "idle"
            /\ ex_client' = cl
            /\ ex_calls' = 0
            /\ IF v.exc # "none"
               THEN /\ ex_pc' = "answered"
                    /\ ex_in' = [scenario |-> sc, classification |-> c,
                                 oyente_type |-> o, clean |-> FALSE]
                    /\ ex_out' = [NoExplOut EXCEPT !.outcome = "raise", !.exc = v.exc]
               ELSE /\ ex_pc' = "asking"
                    /\ ex_in' = [scenario |-> v.scenario,
                                 classification |-> v.classification,
                                 oyente_type |-> v.oyente_type, clean |-> TRUE]
                    /\ ex_out' = NoExplOut
            /\ UNCHANGED notExpl

\* obtener_explicacion_ia without a client: no OPENAI_API_KEY, or no openai
\* package, raises RuntimeError before any call
ExplainNoClient ==
    /\ ex_pc = "asking"
    /\ ex_client.client = "None"
    /\ ~(ex_client.api_key /\ ex_client.sdk)
    /\ ex_pc' = "answered"
    /\ ex_out' = LocalFallback(NoResponse)
    /\ UNCHANGED <<ex_in, ex_client, ex_calls, notExpl>>

\* obtener_explicacion_ia: the validations again, client.responses.create, and
\* what obtener_explicacion_con_fuente makes of the outcome
ExplainAsk ==
    \E resp \in Responses :
        LET v == ValidateAll(ex_in.scenario, ex_in.classification, ex_in.oyente_type)
        IN  /\ ex_pc = "asking"
            /\ ex_client.client = "given" \/ (ex_client.api_key /\ ex_client.sdk)
            /\ ex_pc' = "answered"
            /\ IF v.exc # "none"
               THEN /\ ex_calls' = ex_calls
                    /\ ex_out' = LocalFallback(NoResponse)
               ELSE /\ ex_calls' = ex_calls + 1
                    /\ ex_out' = IF ResponseUsable(resp)
                                 THEN [outcome |-> "return", exc |-> "none",
                                       text |-> [NoText EXCEPT !.kind = "ia",
                                                               !.body = Strip(resp.text).core],
                                       source |-> "IA", collab |-> resp]
                                 ELSE LocalFallback(resp)
            /\ UNCHANGED <<ex_in, ex_client, notExpl>>

\* the caller takes the result
ExplainRead ==
    /\ ex_pc = "answered"
    /\ ex_pc' = "idle"
    /\ ex_in' = [scenario |-> NoScenario, classification |-> NotStr,
                 oyente_type |-> NotStr, clean |-> FALSE]
    /\ ex_client' = [client |-> "None", api_key |-> FALSE, sdk |-> FALSE]
    /\ ex_calls' = 0
    /\ ex_out' = NoExplOut
    /\ UNCHANGED notExpl

NextExplain ==
    \/ ExplainCall
    \/ ExplainNoClient
    \/ ExplainAsk
    \/ ExplainRead

SpecExplain == Init /\ [][NextExplain]_vars


(***************************************************************************)
(* Properties of the limiter                                               *)
(***************************************************************************)

\* the number of entries of the history h that lie in [t, t + w)
InInterval(h, t, w) == Cardinality({i \in DOMAIN h : t <= h[i] /\ h[i] < t + w})

\* C1: with one caller and non-decreasing call times, no half-open interval
\* [t, t + time_window) contains more than max_calls admitted calls.
C1_WindowBound ==
    constructed => \A t \in 0..now : InInterval(admitted, t, time_window) <= max_calls

\* C1 witness: a call was rejected while some interval holds exactly max_calls
\* admitted calls, after more than max_calls calls were admitted overall.
C1_Witness ==
    /\ constructed
    /\ lim_op = "is_allowed"
    /\ lim_ret = 0
    /\ Len(admitted) > max_calls
    /\ \E t \in 0..now : InInterval(admitted, t, time_window) = max_calls

\* C3: is_allowed() returns True exactly when fewer than max_calls previously
\* admitted calls are younger than time_window at the time of the call.
C3_AdmitIffQuota ==
    lim_op = "is_allowed" => ((lim_ret = 1) <=> (lim_young < max_calls))

\* C3 witness: a call is admitted again at the instant the blocking admitted call
\* reaches the age time_window, the quota having been used up before.
C3_Witness ==
    /\ lim_op = "is_allowed"
    /\ lim_ret = 1
    /\ Len(admitted) > max_calls
    /\ \E i \in DOMAIN admitted : admitted[i] + time_window = now

\* C4: time_until_next_allowed() returns a value in [0, time_window]; it is 0
\* exactly when is_allowed() at the same instant would admit; otherwise it is
\* time_window minus the age of the oldest recorded call, a positive value, and
\* a call made that many seconds later is admitted.
C4_TimeUntil ==
    constructed =>
        LET v == TimeUntilNextAllowed(calls, now, max_calls, time_window) IN
        /\ v \in 0..time_window
        /\ (v = 0) <=> IsAllowedRet(calls, now, max_calls, time_window)
        /\ v # 0 =>
            /\ v = time_window - (now - calls[1])
            /\ v > 0
            /\ IsAllowedRet(calls, now + v, max_calls, time_window)

\* C4 witness: time_until_next_allowed() has returned a positive wait shorter
\* than the window, and another call on a full list whose oldest entry has
\* expired returns 0.
C4_Witness ==
    /\ lim_op = "time_until_next_allowed"
    /\ lim_ret > 0
    /\ lim_ret < time_window
    /\ Len(calls) = max_calls

\* C5: a rate_limited function runs its body exactly on the calls its limiter
\* admits, a refused call raises RuntimeError without running the body, and the
\* body runs at most max_calls times within any time_window.
C5_BodyOnlyWhenAdmitted ==
    /\ body_runs = admitted
    /\ lim_op = "rate_limited" => ((wrap_outcome = "RuntimeError") <=> (lim_ret = 0))
    /\ constructed => \A t \in 0..now : InInterval(body_runs, t, time_window) <= max_calls

\* C5 witness: a call was refused with RuntimeError after the body had run
\* max_calls times, and earlier refusals were followed by new admissions.
C5_Witness ==
    /\ lim_op = "rate_limited"
    /\ wrap_outcome = "RuntimeError"
    /\ wrap_wait > 0
    /\ Len(body_runs) > max_calls

\* the number of occurrences of x in the sequence h
Occurrences(h, x) == Cardinality({i \in DOMAIN h : h[i] = x})

\* C2: when one limiter is shared by concurrent callers, under every
\* interleaving of is_allowed() calls no more than max_calls calls are admitted
\* within one time_window, and no admitted timestamp is lost: once every call has
\* returned, each admitted timestamp younger than time_window is still recorded.
C2_SharedWindowBound ==
    constructed =>
        /\ \A t \in 0..now : InInterval(admitted, t, time_window) <= max_calls
        /\ (\A t \in Threads : th_pc[t] = "idle") =>
               \A x \in 0..now :
                   now - x < time_window =>
                       Occurrences(calls, x) >= Occurrences(admitted, x)

(***************************************************************************)
(* Properties of deadline enforcement                                      *)
(***************************************************************************)

C7_Degraded ==
    (t_kind = "timeout" /\ t_func = "generic" /\ t_thread = "worker" /\ t_pc # "idle") =>
        /\ alarm_left = 0
        /\ ~sig_pending
        /\ ~t_fired
        /\ t_ran
        /\ t_pc = "done" =>
               /\ t_left = 0
               /\ t_outcome = IF t_raises THEN "FuncError" ELSE "return"
               /\ t_result = IF t_raises THEN NoResult ELSE t_arg + 1

\* C7: a timeout-wrapped function called from a thread other than the main thread
\* runs to completion, its result or exception is passed through, and no step of
\* the call arms an alarm or changes the SIGALRM handler.
C7_WorkerRunsUnbounded ==
    /\ []C7_Degraded
    /\ [][(t_kind' = "timeout" /\ t_thread' = "worker") =>
             (handler' = handler /\ alarm_left' = alarm_left)]_vars

\* C7 witness: a worker-thread call has returned its value after running longer
\* than the limit.
C7_Witness ==
    /\ t_pc = "done"
    /\ t_kind = "timeout"
    /\ t_func = "generic"
    /\ t_thread = "worker"
    /\ t_dur > t_seconds
    /\ t_outcome = "return"
    /\ t_result = t_arg + 1

\* C9: a time_limit(seconds) block entered from a thread other than the main
\* thread still executes its body, without the time bound, and ends the way the
\* body ends.
C9_TimeLimitOffMain ==
    (t_kind = "time_limit" /\ t_thread = "worker" /\ t_pc = "done") =>
        /\ t_ran
        /\ t_outcome = IF t_raises THEN "FuncError" ELSE "return"

\* C8: when the deadline of the timeout-wrapped run_game_stepwise expires on the
\* main thread at any point of the function, the caller receives TimeoutError:
\* never a (partial) history and never another kind of failure.
C8_TimeoutReachesCaller ==
    (t_pc = "done" /\ t_func = "run_game_stepwise" /\ t_fired) =>
        t_outcome = "TimeoutError"

(***************************************************************************)
(* Properties of the cost estimate                                         *)
(***************************************************************************)

\* 1000 times max(requested_moves / 500, requested_nodes / 1000), absent nodes
\* counting as 0
Cost1000 ==
    LET n == IF cost_in.nodes = NoNodes THEN 0 ELSE cost_in.nodes
    IN  IF 2 * cost_in.moves >= n THEN 2 * cost_in.moves ELSE n

\* C10: for non-negative requested_moves and requested_nodes and warn_threshold
\* in (0, 1], cost = max(requested_moves/500, requested_nodes/1000) >= 0,
\* allowed = (cost <= 1.0), and warning is the blocking message iff cost > 1.0,
\* the advisory message iff warn_threshold < cost <= 1.0 and None otherwise.
C10_CostEstimate ==
    cost_pc = "answered" =>
    /\ cost_out.cost[2] > 0
    /\ cost_out.cost[1] >= 0
    /\ cost_out.cost[1] * 1000 = Cost1000 * cost_out.cost[2]
    /\ cost_out.allowed = (Cost1000 <= 1000)
    /\ (cost_out.warning = "blocked") <=> (Cost1000 > 1000)
    /\ (cost_out.warning = "advisory") <=>
           (cost_in.warn[1] * 1000 < Cost1000 * cost_in.warn[2] /\ Cost1000 <= 1000)
    /\ cost_out.warning \in {"blocked", "advisory", "None"}

\* C10 witness: a request whose node count decides the cost, exactly at the hard
\* ceiling, is allowed with the advisory warning.
C10_Witness ==
    /\ cost_pc = "answered"
    /\ cost_in.nodes = 1000
    /\ cost_in.moves = 400
    /\ cost_in.warn = <<7, 10>>
    /\ cost_out.allowed
    /\ cost_out.warning = "advisory"

(***************************************************************************)
(* Properties of Scenario.simulate                                         *)
(***************************************************************************)

\* C11: for a valid Scenario and steps in [1, 1000], simulate(steps) returns
\* exactly steps values, the first is H_eff_init, each later one is
\* max(previous - decay, 0); the series never increases, is never negative,
\* and stays at 0 once it has reached 0.
C11_SimulateSeries ==
    /\ (sim_pc = "raised" => sim_steps \notin 1..1000)
    /\ (sim_pc = "returned" =>
        LET v == sim_values IN
        /\ sim_steps \in 1..1000
        /\ Len(v) = sim_steps
        /\ v[1] = sc_self.H_eff_init
        /\ \A i \in 2..Len(v) :
            v[i] = IF v[i-1] - sc_self.decay > 0 THEN v[i-1] - sc_self.decay ELSE 0
        /\ \A i \in 1..Len(v) : v[i] >= 0
        /\ \A i \in 1..(Len(v) - 1) : v[i+1] <= v[i] /\ (v[i] = 0 => v[i+1] = 0))

\* C11 witness: a simulate(1000) whose series decays, reaches 0 and stays there
C11_Witness ==
    /\ sim_pc = "returned"
    /\ sim_steps = 1000
    /\ sim_values[1] > sim_values[2]
    /\ sim_values[2] > 0
    /\ sim_values[999] = 0
    /\ sim_values[1000] = 0

\* C12: Scenario(name, H_eff_init, 0) with a valid name and initial value is
\* created, and each value simulate returns for it equals H_eff_init.
C12_ZeroDecayScenario ==
    (/\ sc_state # "absent"
     /\ sc_args.decay = 0
     /\ ValidName(sc_args.name)
     /\ sc_args.H_eff_init > 0
     /\ sc_args.H_eff_init <= SCENARIO_MAX) =>
        /\ sc_state = "created"
        /\ (sim_pc = "returned" =>
                \A i \in 1..Len(sim_values) : sim_values[i] = sc_self.H_eff_init)

(***************************************************************************)
(* Properties of classify                                                  *)
(***************************************************************************)

IsValidScenario(s) ==
    /\ s.kind = "Scenario"
    /\ s.H_eff_init > 0 /\ s.H_eff_init <= SCENARIO_MAX
    /\ s.decay > 0 /\ s.decay <= SCENARIO_MAX

\* the positions of the ranking r whose entry has the name n
EntriesNamed(r, n) == {k \in DOMAIN r : r[k].name = n}

\* C14: when a threshold is <= 0 or alpha_h_min <= beta_h_min, each of compare,
\* compare_with_thresholds and compare_from_ui fails with a validation error
\* and has simulated no scenario.
C14_ThresholdsValidated ==
    (/\ cmp_pc = "answered"
     /\ \/ cmp_in.alpha_h_min <= 0
        \/ cmp_in.alpha_decay_max <= 0
        \/ cmp_in.beta_h_min <= 0
        \/ cmp_in.alpha_h_min <= cmp_in.beta_h_min) =>
        (cmp_out.exc = "ValueError" /\ cmp_out.simulated = 0)

C16_EmittedConvention ==
    (cmp_pc = "answered" /\ cmp_out.exc = "none") =>
        /\ \A k \in DOMAIN cmp_out.ranking :
            LET e == cmp_out.ranking[k]
                s == cmp_in.scenarios[e.name]
                series == Simulate(s, cmp_in.steps).values
            IN  /\ e.H_eff = series[Len(series)]
                /\ (cmp_in.steps = 1 => e.H_eff = s.H_eff_init)
                /\ e.dH_eff_dt = s.decay
                /\ e.class = Classify(e.H_eff, e.dH_eff_dt, cmp_in.alpha_h_min,
                                      cmp_in.alpha_decay_max, cmp_in.beta_h_min)
        /\ \A i \in DOMAIN cmp_in.scenarios :
            IsValidScenario(cmp_in.scenarios[i]) => EntriesNamed(cmp_out.ranking, i) # {}
        /\ cmp_in.api \in {"compare_with_thresholds", "compare_from_ui"} =>
            cmp_out = Compare(cmp_in.scenarios, cmp_in.is_list, cmp_in.alpha_h_min,
                              cmp_in.alpha_decay_max, cmp_in.beta_h_min, cmp_in.steps)

\* C16 witness: compare_from_ui with steps > 1 emits an H_eff below H_eff_init
\* and above 0, classified Beta
C16_Witness ==
    /\ cmp_pc = "answered"
    /\ cmp_in.api = "compare_from_ui"
    /\ cmp_out.exc = "none"
    /\ cmp_in.steps > 1
    /\ Len(cmp_out.ranking) = 1
    /\ cmp_out.ranking[1].H_eff > 0
    /\ cmp_out.ranking[1].H_eff < cmp_in.scenarios[1].H_eff_init
    /\ cmp_out.ranking[1].class = "Beta"

\* C17: whenever steps is outside [1, 1000], and whatever list is passed, the
\* three entry points raise the 'steps out of range' error and have simulated
\* no scenario.
C17_StepsRejected ==
    (/\ cmp_pc = "answered"
     /\ cmp_in.is_list
     /\ cmp_in.steps \notin 1..1000) =>
        /\ cmp_out.exc = "ValueError"
        /\ cmp_out.msg = "steps fuera de rango"
        /\ cmp_out.simulated = 0

\* C18: compare, given a list with valid steps and thresholds, does not fail:
\* an element that is not a valid Scenario is skipped and each valid Scenario
\* of the list has its entry in the ranking; a scenarios argument that is not
\* a list fails.
C18_MalformedSkipped ==
    (/\ cmp_pc = "answered"
     /\ cmp_in.api = "compare"
     /\ cmp_in.steps \in 1..1000
     /\ cmp_in.beta_h_min > 0
     /\ cmp_in.alpha_decay_max > 0
     /\ cmp_in.alpha_h_min > cmp_in.beta_h_min) =>
        IF cmp_in.is_list
        THEN /\ cmp_out.exc = "none"
             /\ \A i \in DOMAIN cmp_in.scenarios :
                    IsValidScenario(cmp_in.scenarios[i]) =>
                        EntriesNamed(cmp_out.ranking, i) # {}
        ELSE cmp_out.exc = "ValueError"

(***************************************************************************)
(* Properties of the metrics                                               *)
(***************************************************************************)

\* x <= y on fractions
RatLeq(x, y) == ~RatLess(y, x)

\* x = y on fractions
RatEq(x, y) == x[1] * y[2] = y[1] * x[2]

\* C19: compute_metrics and compute_holistic_metrics return H >= 0 and
\* 0 <= H_eff <= H; on the graph S >= 0 (S is the root of a variance that is
\* not negative); on the board H_eff <= ACCESS_WEIGHT * H.
C19_MetricRanges ==
    met_pc = "answered" =>
        /\ RatLeq(Ratio(0, 1), met_out.H)
        /\ RatLeq(Ratio(0, 1), met_out.H_eff)
        /\ RatLeq(met_out.H_eff, met_out.H)
        /\ (met_in.fn = "compute_metrics" => RatLeq(Ratio(0, 1), met_out.S2))
        /\ (met_in.fn = "compute_holistic_metrics" =>
                RatLeq(met_out.H_eff, RatMul(ACCESS_WEIGHT, met_out.H)))

\* C19 witness: a graph whose nodes differ in degree and in utilization, with
\* 0 < H_eff < H and S > 0
C19_Witness ==
    /\ met_pc = "answered"
    /\ met_in.fn = "compute_metrics"
    /\ RatLess(Ratio(0, 1), met_out.H_eff)
    /\ RatLess(met_out.H_eff, met_out.H)
    /\ RatLess(Ratio(0, 1), met_out.S2)

\* C20: with no edges in the graph, or mobility 0 for every piece, H_eff is 0
\* whatever H is; an entity whose own accessibility is 0 adds nothing to H_eff
\* (H_eff is what it is without these entities); the empty entity set yields
\* zeros.
C20_InaccessibleAddsNothing ==
    met_pc = "answered" =>
        /\ (met_in.fn = "compute_metrics" /\ met_in.edges = {} =>
                RatEq(met_out.H_eff, Ratio(0, 1)))
        /\ (met_in.fn = "compute_metrics" /\ met_in.edges # {} =>
                LET reachable == {n \in DOMAIN met_in.nodes :
                                    Cardinality({e \in met_in.edges : n \in e}) > 0}
                    rest == [n \in reachable |-> met_in.nodes[n]]
                IN  RatEq(met_out.H_eff,
                          ComputeMetrics(met_in.gnodes, met_in.edges, rest).H_eff))
        /\ (met_in.fn = "compute_holistic_metrics" =>
                LET mobile == SelectSeq(met_in.pieces, LAMBDA pc : pc.mobility > 0)
                IN  /\ RatEq(met_out.H_eff, ComputeHolisticMetrics(mobile).H_eff)
                    /\ (mobile = <<>> => RatEq(met_out.H_eff, Ratio(0, 1))))
        /\ (met_in.fn = "compute_metrics" /\ DOMAIN met_in.nodes = {} =>
                met_out = [H |-> <<0, 1>>, H_eff |-> <<0, 1>>, S2 |-> <<0, 1>>])
        /\ (met_in.fn = "compute_holistic_metrics" /\ met_in.pieces = <<>> =>
                RatEq(met_out.H, Ratio(0, 1)) /\ RatEq(met_out.H_eff, Ratio(0, 1)))

\* C20 witness: a graph with an edge and, beside it, a node of positive slack
\* that no edge touches; H_eff is positive and below H
C20_Witness ==
    /\ met_pc = "answered"
    /\ met_in.fn = "compute_metrics"
    /\ met_in.edges # {}
    /\ \E n \in DOMAIN met_in.nodes :
        /\ n \in met_in.gnodes
        /\ Slack(met_in.nodes[n]) > 0
        /\ \A e \in met_in.edges : n \notin e
    /\ RatLess(Ratio(0, 1), met_out.H_eff)
    /\ RatLess(met_out.H_eff, met_out.H)

\* the first instant, from time n on, at which is_allowed() on the list c admits
NextAdmission(c, n, m, w) ==
    n + (CHOOSE d \in 0..w :
            /\ IsAllowedRet(c, n + d, m, w)
            /\ \A e \in 0..(d - 1) : ~IsAllowedRet(c, n + e, m, w))

\* C30: a rejected is_allowed() records no timestamp, it only drops the expired
\* ones; time_until_next_allowed() leaves the limiter as it was; the recorded
\* list never holds more than max_calls timestamps; and a rejected call leaves
\* the instant of the next admission where it was.
C30_RejectionRecordsNothing ==
    /\ [](constructed => Len(calls) <= max_calls)
    /\ [][/\ (IsAllowed /\ lim_ret' = 0)
              => /\ calls' = Purge(calls, now, time_window)
                 /\ admitted' = admitted
                 /\ NextAdmission(calls', now, max_calls, time_window)
                        = NextAdmission(calls, now, max_calls, time_window)
          /\ TimeUntil
              => /\ calls' = calls
                 /\ <<constructed, max_calls, time_window, admitted>>'
                        = <<constructed, max_calls, time_window, admitted>>]_vars

\* C30 witness: is_allowed() has been rejected on a full list at an instant
\* later than the last recorded timestamp, and the list holds no such instant.
C30_Witness ==
    /\ lim_op = "is_allowed"
    /\ lim_ret = 0
    /\ Len(calls) = max_calls
    /\ now > calls[Len(calls)]
    /\ NextAdmission(calls, now, max_calls, time_window) > now

(***************************************************************************)
(* Properties of the cleanup of the deadline wrappers                      *)
(***************************************************************************)

\* C28: whenever a timeout-wrapped call (or time_limit block) on the main thread
\* has finished, by returning, by raising its own exception or interrupted by
\* the alarm at any point, its cleanup included, no alarm is pending and the
\* SIGALRM handler that was installed before the call is installed again.
C28_CleanupRestores ==
    (t_pc = "done" /\ t_thread = "main") =>
        /\ alarm_left = 0
        /\ ~sig_pending
        /\ handler = t_old

\* C29: when a timeout-wrapped call or a time_limit block has run and finished
\* inside a timeout-wrapped call on the main thread, the outer deadline is still
\* enforced: an outer function that keeps running past its own limit ends with
\* TimeoutError.
C29_OuterDeadlineKept ==
    (/\ t_pc = "done"
     /\ t_func = "nesting"
     /\ n_exc = "none"
     /\ n_before + n_dur < t_seconds
     /\ n_before + n_dur + t_dur > t_seconds) =>
        /\ t_outcome = "TimeoutError"
        /\ t_left = n_before + n_dur + t_dur - t_seconds

(***************************************************************************)
(* Properties of build_graph                                               *)
(***************************************************************************)

\* C21: the result of build_graph(n, rng) depends only on n and on the state of
\* the source supplied: two calls with the same n whose sources were in the
\* same state return the same node names, capacities, loads, edges and
\* frictions, whatever calls with other sources or with the module's default
\* source were made before or between them.
C21_SameSourceSameGraph ==
    (/\ bg_pc = "answered"
     /\ bg_in.rng # "None"
     /\ bg_out.exc = "none"
     /\ bg_prev.set
     /\ bg_in.n.val = bg_prev.n
     /\ bg_in.st = bg_prev.st) =>
        /\ bg_out.nodes = bg_prev.nodes
        /\ bg_out.edges = bg_prev.edges

\* C21 witness: a graph with edges was built twice from sources in the same
\* state, the module's default source having been drawn from in the meantime.
C21_Witness ==
    /\ bg_pc = "answered"
    /\ bg_in.rng # "None"
    /\ bg_out.exc = "none"
    /\ bg_prev.set
    /\ bg_in.n.val = bg_prev.n
    /\ bg_in.st = bg_prev.st
    /\ bg_out.edges # {}
    /\ bg_out.edges = bg_prev.edges
    /\ rng["demo._demo_rng"] # Seeded(DefaultSeed)

\* C23: for every n from 2 to 100 and every random source, the graph that
\* build_graph(n) returns has at least n edges.
C23_AtLeastNEdges ==
    (bg_pc = "answered" /\ bg_out.exc = "none" /\ bg_in.n.val >= 2) =>
        Cardinality(bg_out.edges) >= bg_in.n.val

(***************************************************************************)
(* Properties of run_game                                                  *)
(***************************************************************************)

\* C24: along the history run_game builds, whatever legal moves are drawn, the
\* total slack H never increases from one recorded turn to the next.
C24_HNeverIncreases ==
    \A i \in 2..Len(rg_hist) : ~RatLess(rg_hist[i - 1].H, rg_hist[i].H)

\* C22: two calls run_game(max_moves) made without rng, each right after the
\* random module was reseeded with the same seed, return identical histories:
\* the same turns with the same H and H_eff.
C22_ReseedReproduces ==
    (/\ rg_pc = "done"
     /\ rg_in.rng = "None"
     /\ rg_exc = "none"
     /\ rg_prev.set
     /\ rg_in.max_moves.val = rg_prev.max_moves
     /\ rg_in.seed # NoSource
     /\ rg_in.seed = rg_prev.seed) =>
        rg_hist = rg_prev.hist

(***************************************************************************)
(* Properties of the two game loops                                        *)
(***************************************************************************)

\* what the history of run_game looks like at every point of the call
C27_RunGameShape ==
    /\ rg_move_count <= Max2(rg_in.max_moves.val, 0)
    /\ Len(rg_hist) <= Max2(rg_in.max_moves.val, 0)
    /\ \A i \in DOMAIN rg_hist : rg_hist[i].turn = i - 1

\* what the history of run_game_stepwise looks like at every point of the call,
\* and when it is returned
C27_StepwiseShape ==
    /\ g_move_count <= Max2(g_max_moves, 0)
    /\ g_hist = Len(g_turns)
    /\ \A i \in DOMAIN g_turns : g_turns[i].turn = i - 1
    /\ (t_pc = "done" /\ t_func = "run_game_stepwise" /\ t_outcome = "return") =>
        /\ t_result = Len(g_turns)
        /\ Len(g_turns) \in 1..(g_max_moves + 1)
        /\ g_turns[1] = [turn |-> 0, label |-> "Posición inicial"]

\* C27: run_game and run_game_stepwise end after at most max_moves iterations of
\* their loop (each iteration adds 1 to move_count, which never passes
\* max_moves) and record nothing once a stop condition holds; the i-th entry
\* of run_game's history has move_count = i (from 0) and there are at most
\* max_moves of them; run_game_stepwise returns between 1 and max_moves + 1
\* entries, the first being turn 0 labelled 'Posición inicial', with
\* consecutive turn numbers.
C27_LoopsEndInShape ==
    /\ [](C27_RunGameShape /\ C27_StepwiseShape)
    /\ [][/\ (rg_pc = "loop" /\ (IsGameOver(rg_board)
                                    \/ rg_move_count >= rg_in.max_moves.val))
              => (rg_hist' = rg_hist /\ rg_pc' = "done")
          /\ (rg_pc = "done" /\ rg_pc' = "done") => rg_hist' = rg_hist
          /\ (rg_pc = "move" /\ rg_pc' = "loop") => rg_move_count' = rg_move_count + 1
          /\ (g_pc = "ret" /\ t_pc' # "idle" /\ t_pc # "idle") => g_turns' = g_turns
          /\ (g_pc = "loop" /\ g_pc' = "move") => g_move_count < g_max_moves
          /\ (g_pc = "record" /\ g_pc' \in {"loop", "ret"})
              => g_move_count' = g_move_count + 1]_vars

\* C27 witness: run_game_stepwise has returned max_moves + 1 entries for the
\* largest max_moves tried.
C27_Witness ==
    /\ t_pc = "done"
    /\ t_func = "run_game_stepwise"
    /\ t_outcome = "return"
    /\ g_max_moves = MaxGameMoves
    /\ Len(g_turns) = g_max_moves + 1
    /\ g_turns[Len(g_turns)].turn = g_max_moves

(***************************************************************************)
(* Properties of the explanations                                          *)
(***************************************************************************)

\* the inputs the validators accept by their own conditions: a dict with a
\* non-blank name, numeric H_eff > 0 and decay (or dH_eff_dt) > 0, a non-blank
\* classification, and one of the four audiences
ExplValidInput ==
    /\ ex_in.scenario.dict
    /\ NonBlankStr(ex_in.scenario.name)
    /\ PositiveNumber(ex_in.scenario.H_eff)
    /\ PositiveNumber(GetDecay(ex_in.scenario))
    /\ NonBlankStr(ex_in.classification)
    /\ ex_in.oyente_type.t = "str"
    /\ Strip(ex_in.oyente_type).core \in OYENTE_TYPES

\* C25: for every valid (scenario, classification, audience)
\* obtener_explicacion_con_fuente does not raise; it returns the collaborator's
\* text (stripped) with source 'IA' exactly when the collaborator call came
\* back with a text that is not blank, and otherwise the local template of that
\* audience with source 'LOCAL_FALLBACK'; an invalid input is rejected with
\* ValueError and the collaborator is not called.
C25_FallbackContract ==
    ex_pc = "answered" =>
        IF ExplValidInput
        THEN /\ ex_out.outcome = "return"
             /\ ex_out.source \in {"IA", "LOCAL_FALLBACK"}
             /\ ex_out.source = "IA" <=>
                    (ex_out.collab.how = "return" /\ NonBlankStr(ex_out.collab.text))
             /\ ex_out.source = "IA" =>
                    /\ ex_out.text.kind = "ia"
                    /\ ex_out.text.body = Strip(ex_out.collab.text).core
             /\ ex_out.source = "LOCAL_FALLBACK" =>
                    /\ ex_out.text.kind = "template"
                    /\ ex_out.text.audience = Strip(ex_in.oyente_type).core
                    /\ ex_out.text.name = Strip(ex_in.scenario.name).core
                    /\ ex_out.text.classification = Strip(ex_in.classification).core
        ELSE /\ ex_out.outcome = "raise"
             /\ ex_out.exc = "ValueError"
             /\ ex_calls = 0
             /\ ex_out.collab = NoResponse

(***************************************************************************)
(* Properties of the validations                                           *)
(***************************************************************************)

\* a size that is no int, or lies outside 1..hi
InvalidSize(is_int, val, hi) == ~is_int \/ val < 1 \/ val > hi

\* a rejected call has computed nothing
C26_NothingComputed ==
    /\ (bg_pc = "answered" /\ InvalidSize(bg_in.n.is_int, bg_in.n.val, 100)) =>
        /\ bg_out.exc \in {"TypeError", "ValueError"}
        /\ bg_out.nodes = <<>>
        /\ bg_out.edges = {}
    /\ (rg_pc # "idle"
        /\ InvalidSize(rg_in.max_moves.is_int, rg_in.max_moves.val, RunGameMaxMoves)) =>
        /\ rg_pc = "done"
        /\ rg_exc \in {"TypeError", "ValueError"}
        /\ rg_hist = <<>>
        /\ rg_move_count = 0
    /\ (t_pc # "idle" /\ t_func = "run_game_stepwise"
        /\ InvalidSize(g_int, g_max_moves, StepwiseMaxMoves)) =>
        /\ g_pc \in {"none", "validate"}
        /\ g_turns = <<>>
        /\ g_move_count = 0
        /\ t_pc = "done" => t_outcome \in {"TypeError", "ValueError", "TimeoutError",
                                            "RuntimeError"}
    /\ (sim_pc # "idle" /\ ~(sim_steps \in 1..1000)) =>
        /\ sim_pc = "raised"
        /\ sim_values = <<>>

====
